---- MODULE Spec2Model ----
(***************************************************************************)
(* A model of ecore_to_proto.py: the conversion pipeline `convert` (parse, *)
(* flatten, resolve, collect annotations, generate, write) and the pure    *)
(* helpers its passes are built from.                                      *)
(*                                                                         *)
(* Text is modelled as a sequence of one-character strings, so that the    *)
(* character-level conversions of the program (case mapping, the regular   *)
(* expression substitutions, splitting and stripping) are computed and not *)
(* assumed.  Python's None is the value None below, which no text equals.  *)
(***************************************************************************)
EXTENDS Integers, Sequences, FiniteSets, TLC

----------------------------------------------------------------------------
(* Text helpers: Python's str methods and the program's regular expressions *)

None == <<"None">>

LowerCh == <<"a","b","c","d","e","f","g","h","i","j","k","l","m",
             "n","o","p","q","r","s","t","u","v","w","x","y","z">>

UpperCh == <<"A","B","C","D","E","F","G","H","I","J","K","L","M",
             "N","O","P","Q","R","S","T","U","V","W","X","Y","Z">>

LowerSet == {LowerCh[i] : i \in DOMAIN LowerCh}

UpperSet == {UpperCh[i] : i \in DOMAIN UpperCh}

DigitSet == {"0","1","2","3","4","5","6","7","8","9"}

SpaceSet == {" ", "\t", "\n", "\r"}

LowerOf == [c \in UpperSet |-> LowerCh[CHOOSE i \in DOMAIN UpperCh : UpperCh[i] = c]]

UpperOf == [c \in LowerSet |-> UpperCh[CHOOSE i \in DOMAIN LowerCh : LowerCh[i] = c]]

DigitVal == [c \in DigitSet |-> CHOOSE n \in 0..9 : <<"0","1","2","3","4","5","6","7","8","9">>[n + 1] = c]

\* Python truthiness of an Optional[str]: None and "" are both false
Truthy(s) == s /= None /\ s /= <<>>

\* str.lower()
Lower(s) == [i \in DOMAIN s |-> IF s[i] \in UpperSet THEN LowerOf[s[i]] ELSE s[i]]

\* str.upper()
Upper(s) == [i \in DOMAIN s |-> IF s[i] \in LowerSet THEN UpperOf[s[i]] ELSE s[i]]

\* sub in s, for a non-empty text sub
Contains(s, sub) ==
    \E i \in 1..(Len(s) - Len(sub) + 1) : SubSeq(s, i, i + Len(sub) - 1) = sub

\* the start of the last occurrence of sub in s, 0 when there is none
LastIndexOf(s, sub) ==
    LET at == {i \in 1..(Len(s) - Len(sub) + 1) : SubSeq(s, i, i + Len(sub) - 1) = sub}
    IN  IF at = {} THEN 0 ELSE CHOOSE i \in at : \A j \in at : j <= i

\* s.rsplit(sep, 1)[-1] and s.split(sep)[-1]: what follows the last sep
AfterLast(s, sep) ==
    LET i == LastIndexOf(s, sep)
    IN  IF i = 0 THEN s ELSE SubSeq(s, i + Len(sep), Len(s))

\* s.rsplit(sep, 1)[0]: what precedes the last sep
BeforeLast(s, sep) ==
    LET i == LastIndexOf(s, sep)
    IN  IF i = 0 THEN s ELSE SubSeq(s, 1, i - 1)

\* s.lstrip(chars), s.rstrip(chars), s.strip(chars) for a set of characters
LStrip(s, chars) ==
    LET keep == {i \in DOMAIN s : s[i] \notin chars}
    IN  IF keep = {} THEN <<>>
        ELSE SubSeq(s, CHOOSE i \in keep : \A j \in keep : i <= j, Len(s))

RStrip(s, chars) ==
    LET keep == {i \in DOMAIN s : s[i] \notin chars}
    IN  IF keep = {} THEN <<>>
        ELSE SubSeq(s, 1, CHOOSE i \in keep : \A j \in keep : j <= i)

Strip(s, chars) == LStrip(RStrip(s, chars), chars)

\* s.split()[-1]: the last whitespace-separated word of a text that has one
LastWord(s) ==
    LET t == RStrip(s, SpaceSet)
        sp == {i \in DOMAIN t : t[i] \in SpaceSet}
    IN  IF sp = {} THEN t
        ELSE SubSeq(t, (CHOOSE i \in sp : \A j \in sp : j <= i) + 1, Len(t))

\* "".join(ss), and the concatenation of a list of lists
RECURSIVE Flatten(_)
Flatten(ss) ==
    CHOOSE joined \in {IF Len(v) = 0 THEN <<>>
                       ELSE IF Len(v) = 1 THEN v[1]
                       ELSE Flatten(SubSeq(v, 1, Len(v) \div 2))
                              \o Flatten(SubSeq(v, (Len(v) \div 2) + 1, Len(v))) :
                       v \in {ss}} : TRUE

\* re.sub(r'([a-z0-9])([A-Z])', r'\1_\2', s)
SubLowerUpper(s) ==
    Flatten([i \in DOMAIN s |->
        IF i > 1 /\ s[i - 1] \in (LowerSet \cup DigitSet) /\ s[i] \in UpperSet
        THEN <<"_", s[i]>> ELSE <<s[i]>>])

\* re.sub(r'([A-Z]+)([A-Z][a-z])', r'\1_\2', s): the last capital of a run of
\* two or more capitals that a lowercase letter follows is split off the run
SubUpperRun(s) ==
    Flatten([i \in DOMAIN s |->
        IF /\ i > 1 /\ i < Len(s)
           /\ s[i - 1] \in UpperSet /\ s[i] \in UpperSet /\ s[i + 1] \in LowerSet
        THEN <<"_", s[i]>> ELSE <<s[i]>>])

\* re.sub(r'[^...]', '_', s) for the set of characters allowed
ReplaceOutside(s, allowed) == [i \in DOMAIN s |-> IF s[i] \in allowed THEN s[i] ELSE "_"]

\* re.sub(r'_+', '_', s)
CollapseUnderscores(s) ==
    Flatten([i \in DOMAIN s |->
        IF i > 1 /\ s[i - 1] = "_" /\ s[i] = "_" THEN <<>> ELSE <<s[i]>>])

\* a dict as a function: d[k] = v, and d.get(k) with None for a missing key
Put(d, k, v) == [x \in (DOMAIN d) \cup {k} |-> IF x = k THEN v ELSE d[x]]

Get(d, k) == IF k \in DOMAIN d THEN d[k] ELSE None

\* s.startswith(prefix)
StartsWith(s, prefix) == Len(s) >= Len(prefix) /\ SubSeq(s, 1, Len(prefix)) = prefix

\* the elements of a sequence
Range(s) == {s[i] : i \in DOMAIN s}

\* A loop of the program that updates a value once per element is a recursion
\* over the list, below.  A turn is written
\*     CHOOSE done \in {<the rest of the loop> : next \in {<the value after
\*                                                           the turn>}} : TRUE
\* which is the rest of the loop for that value of next: the value of a turn
\* is computed once, before the rest, as the program computes it.

----------------------------------------------------------------------------
(* Constants of the program *)

EXTENSION_FIELD_START == 50000

\* the default options_package "ui" of convert, and options_filename
options_package == <<"u","i">>

options_filename == options_package \o <<"_","o","p","t","i","o","n","s",".","p","r","o","t","o">>

\* ECORE_TO_PROTO_TYPE: Ecore and Java type name -> proto type
ECORE_TO_PROTO_TYPE ==
    (<<"E","S","t","r","i","n","g">> :> <<"s","t","r","i","n","g">>) @@
    (<<"E","I","n","t">> :> <<"i","n","t","3","2">>) @@
    (<<"E","I","n","t","e","g","e","r">> :> <<"i","n","t","3","2">>) @@
    (<<"E","L","o","n","g">> :> <<"i","n","t","6","4">>) @@
    (<<"E","F","l","o","a","t">> :> <<"f","l","o","a","t">>) @@
    (<<"E","D","o","u","b","l","e">> :> <<"d","o","u","b","l","e">>) @@
    (<<"E","B","o","o","l","e","a","n">> :> <<"b","o","o","l">>) @@
    (<<"E","B","y","t","e">> :> <<"i","n","t","3","2">>) @@
    (<<"E","S","h","o","r","t">> :> <<"i","n","t","3","2">>) @@
    (<<"E","C","h","a","r">> :> <<"s","t","r","i","n","g">>) @@
    (<<"E","D","a","t","e">> :> <<"g","o","o","g","l","e",".","p","r","o","t","o","b","u","f",".","T","i","m","e","s","t","a","m","p">>) @@
    (<<"E","B","i","g","I","n","t","e","g","e","r">> :> <<"i","n","t","6","4">>) @@
    (<<"E","B","i","g","D","e","c","i","m","a","l">> :> <<"s","t","r","i","n","g">>) @@
    (<<"E","B","y","t","e","A","r","r","a","y">> :> <<"b","y","t","e","s">>) @@
    (<<"E","R","e","s","o","u","r","c","e">> :> <<"s","t","r","i","n","g">>) @@
    (<<"E","J","a","v","a","O","b","j","e","c","t">> :> <<"g","o","o","g","l","e",".","p","r","o","t","o","b","u","f",".","A","n","y">>) @@
    (<<"E","J","a","v","a","C","l","a","s","s">> :> <<"s","t","r","i","n","g">>) @@
    (<<"E","F","e","a","t","u","r","e","M","a","p","E","n","t","r","y">> :> <<"g","o","o","g","l","e",".","p","r","o","t","o","b","u","f",".","A","n","y">>) @@
    (<<"E","M","a","p">> :> <<"g","o","o","g","l","e",".","p","r","o","t","o","b","u","f",".","S","t","r","u","c","t">>) @@
    (<<"E","E","L","i","s","t">> :> <<"g","o","o","g","l","e",".","p","r","o","t","o","b","u","f",".","L","i","s","t","V","a","l","u","e">>) @@
    (<<"E","T","r","e","e","I","t","e","r","a","t","o","r">> :> <<"s","t","r","i","n","g">>) @@
    (<<"E","E","n","u","m","e","r","a","t","o","r">> :> <<"i","n","t","3","2">>) @@
    (<<"j","a","v","a",".","l","a","n","g",".","S","t","r","i","n","g">> :> <<"s","t","r","i","n","g">>) @@
    (<<"j","a","v","a",".","l","a","n","g",".","I","n","t","e","g","e","r">> :> <<"i","n","t","3","2">>) @@
    (<<"j","a","v","a",".","l","a","n","g",".","L","o","n","g">> :> <<"i","n","t","6","4">>) @@
    (<<"j","a","v","a",".","l","a","n","g",".","F","l","o","a","t">> :> <<"f","l","o","a","t">>) @@
    (<<"j","a","v","a",".","l","a","n","g",".","D","o","u","b","l","e">> :> <<"d","o","u","b","l","e">>) @@
    (<<"j","a","v","a",".","l","a","n","g",".","B","o","o","l","e","a","n">> :> <<"b","o","o","l">>) @@
    (<<"j","a","v","a",".","l","a","n","g",".","B","y","t","e">> :> <<"i","n","t","3","2">>) @@
    (<<"j","a","v","a",".","l","a","n","g",".","S","h","o","r","t">> :> <<"i","n","t","3","2">>) @@
    (<<"j","a","v","a",".","l","a","n","g",".","C","h","a","r","a","c","t","e","r">> :> <<"s","t","r","i","n","g">>) @@
    (<<"j","a","v","a",".","u","t","i","l",".","D","a","t","e">> :> <<"g","o","o","g","l","e",".","p","r","o","t","o","b","u","f",".","T","i","m","e","s","t","a","m","p">>) @@
    (<<"j","a","v","a",".","m","a","t","h",".","B","i","g","I","n","t","e","g","e","r">> :> <<"i","n","t","6","4">>) @@
    (<<"j","a","v","a",".","m","a","t","h",".","B","i","g","D","e","c","i","m","a","l">> :> <<"s","t","r","i","n","g">>) @@
    (<<"i","n","t">> :> <<"i","n","t","3","2">>) @@
    (<<"l","o","n","g">> :> <<"i","n","t","6","4">>) @@
    (<<"f","l","o","a","t">> :> <<"f","l","o","a","t">>) @@
    (<<"d","o","u","b","l","e">> :> <<"d","o","u","b","l","e">>) @@
    (<<"b","o","o","l","e","a","n">> :> <<"b","o","o","l">>) @@
    (<<"b","y","t","e">> :> <<"i","n","t","3","2">>) @@
    (<<"s","h","o","r","t">> :> <<"i","n","t","3","2">>) @@
    (<<"c","h","a","r">> :> <<"s","t","r","i","n","g">>)

\* WELL_KNOWN_TYPE_IMPORTS: proto type -> the file that defines it
WELL_KNOWN_TYPE_IMPORTS ==
    (<<"g","o","o","g","l","e",".","p","r","o","t","o","b","u","f",".","T","i","m","e","s","t","a","m","p">> :> <<"g","o","o","g","l","e","/","p","r","o","t","o","b","u","f","/","t","i","m","e","s","t","a","m","p",".","p","r","o","t","o">>) @@
    (<<"g","o","o","g","l","e",".","p","r","o","t","o","b","u","f",".","A","n","y">> :> <<"g","o","o","g","l","e","/","p","r","o","t","o","b","u","f","/","a","n","y",".","p","r","o","t","o">>) @@
    (<<"g","o","o","g","l","e",".","p","r","o","t","o","b","u","f",".","S","t","r","u","c","t">> :> <<"g","o","o","g","l","e","/","p","r","o","t","o","b","u","f","/","s","t","r","u","c","t",".","p","r","o","t","o">>) @@
    (<<"g","o","o","g","l","e",".","p","r","o","t","o","b","u","f",".","L","i","s","t","V","a","l","u","e">> :> <<"g","o","o","g","l","e","/","p","r","o","t","o","b","u","f","/","s","t","r","u","c","t",".","p","r","o","t","o">>)

----------------------------------------------------------------------------
(* Pure helpers of the parser *)

\* whether int(s) succeeds: optional blanks, an optional sign, digits that may
\* be grouped by single underscores
IsIntLiteral(s) ==
    LET t == Strip(s, SpaceSet)
        body == IF t /= <<>> /\ t[1] \in {"+", "-"} THEN Tail(t) ELSE t
    IN  /\ body /= <<>>
        /\ \A i \in DOMAIN body : body[i] \in DigitSet \cup {"_"}
        /\ body[1] /= "_" /\ body[Len(body)] /= "_"
        /\ \A i \in 1..(Len(body) - 1) : ~(body[i] = "_" /\ body[i + 1] = "_")

RECURSIVE DigitsValue(_)
DigitsValue(ds) ==
    IF ds = <<>> THEN 0
    ELSE 10 * DigitsValue(SubSeq(ds, 1, Len(ds) - 1)) + DigitVal[ds[Len(ds)]]

\* int(s) for a text on which it succeeds
PyInt(s) ==
    LET t == Strip(s, SpaceSet)
        neg == t /= <<>> /\ t[1] = "-"
        body == IF t /= <<>> /\ t[1] \in {"+", "-"} THEN Tail(t) ELSE t
        v == DigitsValue(SelectSeq(body, LAMBDA c : c \in DigitSet))
    IN  IF neg THEN 0 - v ELSE v

\* EcoreParser._extract_type_info: (type_name, source_hint) of an eType token
extract_type_info(etype_raw) ==
    IF etype_raw = <<>> THEN <<<<"E","S","t","r","i","n","g">>, None>>
    ELSE IF Contains(etype_raw, <<"#","/","/">>)
    THEN LET left0 == Strip(BeforeLast(etype_raw, <<"#","/","/">>), SpaceSet)
             right == AfterLast(etype_raw, <<"#","/","/">>)
             type_name == Strip(AfterLast(right, <<"/">>), SpaceSet)
             left == IF Contains(left0, <<" ">>) THEN LastWord(left0) ELSE left0
             basename == AfterLast(left, <<"/">>)
             hint == IF Contains(basename, <<".">>)
                     THEN BeforeLast(basename, <<".">>) ELSE basename
         IN  IF /\ left0 /= <<>>
                /\ ~Contains(left0, <<"e","c","l","i","p","s","e",".","o","r","g","/","e","m","f">>)
                /\ ~Contains(left0, <<"w","w","w",".","w","3",".","o","r","g">>)
             THEN <<type_name, IF hint /= <<>> THEN Strip(hint, SpaceSet) ELSE hint>>
             ELSE <<type_name, None>>
    ELSE <<Strip(LastWord(etype_raw), SpaceSet), None>>

\* ReferenceResolver._extract_type_info_from_uri: the resolver's own parse of
\* an eSuperTypes token
extract_type_info_from_uri(uri) ==
    IF Contains(uri, <<"#","/","/">>)
    THEN LET left == Strip(BeforeLast(uri, <<"#","/","/">>), SpaceSet)
             right == AfterLast(uri, <<"#","/","/">>)
             type_name == Strip(AfterLast(right, <<"/">>), SpaceSet)
             basename == AfterLast(left, <<"/">>)
         IN  IF left /= <<>>
             THEN <<type_name, IF Contains(basename, <<".">>)
                               THEN BeforeLast(basename, <<".">>) ELSE basename>>
             ELSE <<type_name, None>>
    ELSE <<AfterLast(uri, <<"/">>), None>>

\* Path(source_file).stem: the last path component without its last suffix
PathStem(path) ==
    LET name == AfterLast(RStrip(path, {"/"}), <<"/">>)
        i == LastIndexOf(name, <<".">>)
    IN  IF 1 < i /\ i < Len(name) THEN SubSeq(name, 1, i - 1) ELSE name

----------------------------------------------------------------------------
(* Pure helpers of the annotation collector *)

\* _shorten_source
shorten_source(source) ==
    IF source = <<>> THEN <<"u","n","k","n","o","w","n">>
    ELSE LET cleaned == RStrip(source, {"/"})
             last == AfterLast(cleaned, <<"/">>)
             low == Lower(ReplaceOutside(last, LowerSet \cup UpperSet \cup DigitSet \cup {"_"}))
             short == Strip(CollapseUnderscores(low), {"_"})
         IN  IF short /= <<>> THEN short ELSE <<"u","n","k","n","o","w","n">>

\* re.fullmatch(r'-?\d+', v)
MatchesInteger(v) ==
    LET body == IF v /= <<>> /\ v[1] = "-" THEN Tail(v) ELSE v
    IN  body /= <<>> /\ \A i \in DOMAIN body : body[i] \in DigitSet

\* re.fullmatch(r'-?\d+\.?\d*', v)
MatchesDecimal(v) ==
    LET body == IF v /= <<>> /\ v[1] = "-" THEN Tail(v) ELSE v
        dots == {i \in DOMAIN body : body[i] = "."}
    IN  /\ body /= <<>> /\ body[1] \in DigitSet
        /\ \A i \in DOMAIN body : body[i] \in DigitSet \cup {"."}
        /\ Cardinality(dots) <= 1

\* _infer_proto_type
infer_proto_type(values) ==
    IF values = {} THEN "string"
    ELSE IF \A v \in values : Lower(v) \in {<<"t","r","u","e">>, <<"f","a","l","s","e">>}
    THEN "bool"
    ELSE IF \A v \in values : MatchesInteger(v) THEN "int32"
    ELSE IF \A v \in values : MatchesDecimal(v) THEN "double"
    ELSE "string"

\* AnnotationCollector._to_option_field_name
to_option_field_name(source_short, key) ==
    LET raw == IF source_short /= <<>> THEN source_short \o <<"_">> \o key ELSE key
        s == Lower(SubUpperRun(SubLowerUpper(raw)))
    IN  Strip(CollapseUnderscores(ReplaceOutside(s, LowerSet \cup DigitSet \cup {"_"})), {"_"})

----------------------------------------------------------------------------
(* Pure helpers of the generator *)

\* ProtoGenerator._package_to_filename
package_to_filename(name) ==
    LET s == IF name = Upper(name) \/ Contains(name, <<"_">>)
             THEN Lower(name)
             ELSE Lower(SubUpperRun(SubLowerUpper(name)))
    IN  Strip(CollapseUnderscores(ReplaceOutside(s, LowerSet \cup DigitSet \cup {"_"})), {"_"})
          \o <<".","p","r","o","t","o">>

\* ProtoGenerator._camel_to_upper_snake
camel_to_upper_snake(name) ==
    IF name = Upper(name)
    THEN Strip(ReplaceOutside(name, UpperSet \cup DigitSet \cup {"_"}), {"_"})
    ELSE Strip(Upper(ReplaceOutside(SubUpperRun(SubLowerUpper(name)),
                                    LowerSet \cup UpperSet \cup DigitSet \cup {"_"})), {"_"})

\* ProtoGenerator._to_enum_value_name
to_enum_value_name(enum_name, literal_name) ==
    LET prefix == camel_to_upper_snake(enum_name)
        value == camel_to_upper_snake(literal_name)
    IN  IF Len(value) >= Len(prefix) /\ SubSeq(value, 1, Len(prefix)) = prefix
        THEN value
        ELSE prefix \o <<"_">> \o value

\* ProtoGenerator._to_proto_name
to_proto_name(name) ==
    IF name = <<>> THEN <<"U","n","k","n","o","w","n">>
    ELSE <<IF name[1] \in LowerSet THEN UpperOf[name[1]] ELSE name[1]>> \o Tail(name)

----------------------------------------------------------------------------
(* The parser.  An input unit is a file: its path, whether its markup is   *)
(* well formed, the tag of its root element and the package elements the   *)
(* root holds.  Elements carry their XML attributes as raw text.  The      *)
(* classifiers and structural features of the files carry an xsi:type that *)
(* agrees with their content, and a package element holds them by the kind *)
(* that xsi:type gives them; the classification of elements without one,   *)
(* or with one that their content contradicts, is classify and             *)
(* feature_kind below.                                                     *)

\* EcoreParser._has_literals, on the tags of the children of an element
has_literals(elem) ==
    \E i \in DOMAIN elem.children :
       \/ Contains(Lower(elem.children[i]), <<"l","i","t","e","r","a","l">>)
       \/ elem.children[i] = <<"e","L","i","t","e","r","a","l","s">>

\* EcoreParser._has_structural_features
has_structural_features(elem) ==
    \E i \in DOMAIN elem.children :
       \/ elem.children[i] = <<"e","S","t","r","u","c","t","u","r","a","l","F","e","a","t","u","r","e","s">>
       \/ Contains(Lower(elem.children[i]), <<"f","e","a","t","u","r","e">>)

\* EcoreParser._looks_like_class
looks_like_class(elem) ==
    has_structural_features(elem) \/ elem.eSuperTypes /= None \/ elem.abstract /= None

\* EcoreParser._looks_like_enum
looks_like_enum(elem) == has_literals(elem)

\* EcoreParser._looks_like_datatype
looks_like_datatype(elem) == elem.instanceClassName /= None \/ elem.instanceTypeName /= None

\* EcoreParser._parse_package: the list an eClassifiers element is parsed into
classify(elem) ==
    LET xsi_type == elem.xsi_type
        instance_cn == IF Truthy(elem.instanceClassName) THEN elem.instanceClassName
                       ELSE elem.instanceTypeName
    IN  IF Contains(xsi_type, <<"E","C","l","a","s","s">>) \/ (xsi_type = <<>> /\ looks_like_class(elem))
        THEN "class"
        ELSE IF Contains(xsi_type, <<"E","E","n","u","m">>) \/ looks_like_enum(elem) THEN "enum"
        ELSE IF Contains(xsi_type, <<"E","D","a","t","a","T","y","p","e">>) \/ looks_like_datatype(elem) THEN "datatype"
        ELSE IF has_literals(elem) THEN "enum"
        ELSE IF has_structural_features(elem) THEN "class"
        ELSE IF Truthy(instance_cn) THEN "datatype"
        ELSE "class"

\* s.split(): the whitespace-separated words of s
RECURSIVE SplitWords(_)
SplitWords(s) ==
    LET t == LStrip(s, SpaceSet)
        sp == {i \in DOMAIN t : t[i] \in SpaceSet}
        cut == IF sp = {} THEN Len(t) + 1 ELSE CHOOSE i \in sp : \A j \in sp : i <= j
    IN  IF t = <<>> THEN <<>>
        ELSE <<SubSeq(t, 1, cut - 1)>> \o SplitWords(SubSeq(t, cut, Len(t)))

\* details[key] = value on a dict kept as a sequence of <<key, value>> in
\* insertion order
DictSet(d, key, value) ==
    IF \E i \in DOMAIN d : d[i][1] = key
    THEN [i \in DOMAIN d |-> IF d[i][1] = key THEN <<key, value>> ELSE d[i]]
    ELSE Append(d, <<key, value>>)

\* the loop over the details elements of _parse_annotations: elements
\* without a key are skipped
RECURSIVE DictOf(_)
DictOf(pairs) ==
    IF pairs = <<>> THEN <<>>
    ELSE LET last == pairs[Len(pairs)]
         IN  CHOOSE done \in {IF last[1] /= <<>> THEN DictSet(rest, last[1], last[2])
                               ELSE rest :
                                  rest \in {DictOf(SubSeq(pairs, 1, Len(pairs) - 1))}} : TRUE

\* EcoreParser._parse_annotations: blocks without details are dropped
parse_annotations(elems) ==
    LET parsed == [i \in DOMAIN elems |->
                     [source |-> elems[i].source, details |-> DictOf(elems[i].details)]]
    IN  SelectSeq(parsed, LAMBDA a : a.details /= <<>>)

\* elem.get(attribute, "false").lower() == "true", for an attribute that is
\* None when the element does not carry it
IsTrueText(raw) == raw /= None /\ Lower(raw) = <<"t","r","u","e">>

\* EcoreParser._is_likely_reference
is_likely_reference(etype) == extract_type_info(etype)[1] \notin DOMAIN ECORE_TO_PROTO_TYPE

\* EcoreParser._parse_class: the list an eStructuralFeatures element is parsed
\* into
feature_kind(elem) ==
    IF Contains(elem.xsi_type, <<"E","R","e","f","e","r","e","n","c","e">>) THEN "reference"
    ELSE IF Contains(elem.xsi_type, <<"E","A","t","t","r","i","b","u","t","e">>) THEN "attribute"
    ELSE IF /\ elem.eType /= <<>>
            /\ \/ Contains(elem.eType, <<"#","/","/">>)
               \/ Contains(Lower(elem.eType), <<"e","c","o","r","e",":">>)
    THEN IF is_likely_reference(elem.eType) THEN "reference" ELSE "attribute"
    ELSE "attribute"

\* whether a structural feature makes int() raise ValueError
feature_raises(elem) == ~IsIntLiteral(elem.lowerBound) \/ ~IsIntLiteral(elem.upperBound)

\* EcoreParser._parse_attribute
parse_attribute(elem) ==
    LET info == extract_type_info(elem.eType)
    IN  [name |-> elem.name, e_type |-> info[1],
         lower_bound |-> PyInt(elem.lowerBound), upper_bound |-> PyInt(elem.upperBound),
         default_value |-> elem.defaultValueLiteral,
         source_hint |-> info[2], annotations |-> parse_annotations(elem.eAnnotations)]

\* EcoreParser._parse_reference
parse_reference(elem) ==
    LET info == extract_type_info(elem.eType)
    IN  [name |-> elem.name, e_type |-> info[1],
         containment |-> IsTrueText(elem.containment),
         lower_bound |-> PyInt(elem.lowerBound), upper_bound |-> PyInt(elem.upperBound),
         opposite |-> elem.eOpposite,
         resolved_package |-> None,
         source_hint |-> info[2], annotations |-> parse_annotations(elem.eAnnotations)]

\* EcoreParser._parse_class
parse_class(elem, package_name) ==
    [name |-> elem.name,
     abstract |-> IsTrueText(elem.abstract),
     interface |-> IsTrueText(elem.interface),
     super_types |-> SplitWords(elem.eSuperTypes),
     attributes |-> [i \in DOMAIN elem.attributes |-> parse_attribute(elem.attributes[i])],
     references |-> [i \in DOMAIN elem.references |-> parse_reference(elem.references[i])],
     package_name |-> package_name,
     resolved_supers |-> <<>>,
     annotations |-> parse_annotations(elem.eAnnotations)]

\* EcoreParser._parse_enum
parse_enum(elem, package_name) ==
    [name |-> elem.name,
     literals |-> [i \in DOMAIN elem.eLiterals |->
                     [name |-> elem.eLiterals[i][1], value |-> PyInt(elem.eLiterals[i][2])]],
     package_name |-> package_name,
     annotations |-> parse_annotations(elem.eAnnotations)]

\* EcoreParser._parse_datatype
parse_datatype(elem) == [name |-> elem.name, instance_class_name |-> elem.instanceClassName]

\* whether parsing a package element raises ValueError somewhere below it
RECURSIVE package_raises(_)
package_raises(elem) ==
    \/ \E i \in DOMAIN elem.classes :
          \/ \E j \in DOMAIN elem.classes[i].attributes :
                feature_raises(elem.classes[i].attributes[j])
          \/ \E j \in DOMAIN elem.classes[i].references :
                feature_raises(elem.classes[i].references[j])
    \/ \E i \in DOMAIN elem.enums :
          \E j \in DOMAIN elem.enums[i].eLiterals :
             ~IsIntLiteral(elem.enums[i].eLiterals[j][2])
    \/ \E i \in DOMAIN elem.eSubpackages : package_raises(elem.eSubpackages[i])

\* EcoreParser._parse_package: the package objects made for a package element
\* and the sub-packages below it, each under its reference.  The reference of
\* an object is its place in the forest: <<k>> for the k-th package of
\* all_packages, ref \o <<j>> for the j-th sub-package of the package at ref.
RECURSIVE parse_package(_, _, _)
parse_package(elem, filepath, ref) ==
    LET pkg == [name |-> elem.name,
                classes |-> [i \in DOMAIN elem.classes |->
                                parse_class(elem.classes[i], elem.name)],
                enums |-> [i \in DOMAIN elem.enums |-> parse_enum(elem.enums[i], elem.name)],
                data_types |-> [i \in DOMAIN elem.data_types |->
                                   parse_datatype(elem.data_types[i])],
                sub_packages |-> [j \in DOMAIN elem.eSubpackages |-> ref \o <<j>>],
                source_file |-> filepath,
                annotations |-> parse_annotations(elem.eAnnotations)]
    IN  {<<ref, pkg>>} \cup
        UNION {parse_package(elem.eSubpackages[j], filepath, ref \o <<j>>) :
                  j \in DOMAIN elem.eSubpackages}

\* EcoreParser.parse_file: the root package elements that become packages
root_packages(unit) ==
    IF unit.tag = "EPackage" THEN unit.elems
    ELSE IF unit.tag \in {"XMI", "Resource"} THEN unit.elems
    ELSE SelectSeq(unit.elems, LAMBDA e : e.name /= <<>>)

\* EcoreParser.parse_file: "ParseError", "ValueError" or "ok"
parse_outcome(unit) ==
    IF ~unit.wellFormed THEN "ParseError"
    ELSE IF \E i \in DOMAIN unit.elems : package_raises(unit.elems[i]) THEN "ValueError"
    ELSE "ok"

\* flatten_packages: the packages and, after each, its sub-packages, depth
\* first; the list holds the same objects as the tree (their references)
RECURSIVE flatten_packages(_, _)
flatten_packages(h, packages) ==
    Flatten([k \in DOMAIN packages |->
                <<packages[k]>> \o flatten_packages(h, h[packages[k]].sub_packages)])

----------------------------------------------------------------------------
(* The reference resolver.  h is the heap of package objects. *)

\* ReferenceResolver.__init__ before _build_indices
EmptyIndices ==
    [class_index |-> <<>>, enum_index |-> <<>>,
     datatype_index |-> <<>>, file_stem_to_package |-> <<>>]

\* one turn of the loops over pkg.classes and pkg.enums of _index_package
index_name(index, n, pkg_name) ==
    LET cur == IF n \in DOMAIN index THEN index[n] ELSE <<>>
    IN  Put(index, n, IF pkg_name \in Range(cur) THEN cur ELSE Append(cur, pkg_name))

\* the loops over pkg.classes and pkg.enums of _index_package
RECURSIVE index_names(_, _, _)
index_names(index, names, pkg_name) ==
    IF names = <<>> THEN index
    ELSE CHOOSE done \in {index_names(next, Tail(names), pkg_name) :
                      next \in {index_name(index, Head(names), pkg_name)}} : TRUE

\* the loop over pkg.data_types of _index_package
RECURSIVE index_datatypes(_, _)
index_datatypes(index, dts) ==
    IF dts = <<>> THEN index
    ELSE CHOOSE done \in {index_datatypes(next, Tail(dts)) :
                      next \in {IF Truthy(Head(dts).instance_class_name)
                                THEN Put(index, Head(dts).name, Head(dts).instance_class_name)
                                ELSE index}} : TRUE

\* ReferenceResolver._index_package without its recursion
index_own(idx, pkg) ==
    LET stems == IF pkg.source_file /= <<>>
                 THEN Put(idx.file_stem_to_package, PathStem(pkg.source_file), pkg.name)
                 ELSE idx.file_stem_to_package
    IN  [class_index |-> index_names(idx.class_index,
                            [i \in DOMAIN pkg.classes |-> pkg.classes[i].name], pkg.name),
         enum_index |-> index_names(idx.enum_index,
                            [i \in DOMAIN pkg.enums |-> pkg.enums[i].name], pkg.name),
         datatype_index |-> index_datatypes(idx.datatype_index, pkg.data_types),
         file_stem_to_package |-> Put(stems, pkg.name, pkg.name)]

\* ReferenceResolver._index_package
RECURSIVE index_package(_, _, _), index_packages(_, _, _)
index_package(h, idx, ref) ==
    CHOOSE done \in {index_packages(h, own, h[ref].sub_packages) :
                 own \in {index_own(idx, h[ref])}} : TRUE

\* the loop over pkg.sub_packages of _index_package, and the loop over
\* self.packages of _build_indices
index_packages(h, idx, refs) ==
    IF refs = <<>> THEN idx
    ELSE CHOOSE done \in {index_packages(h, next, Tail(refs)) :
                      next \in {index_package(h, idx, Head(refs))}} : TRUE

\* ReferenceResolver._build_indices
build_indices(h, packages) == index_packages(h, EmptyIndices, packages)

\* resolve_type with the same-package rule tried before the hint rules
resolve_type_local_first(idx, type_name, source_hint, current_pkg_name, index) ==
    LET candidates == IF type_name \in DOMAIN index THEN index[type_name] ELSE <<>>
        hinted_pkg == Get(idx.file_stem_to_package, source_hint)
    IN  IF candidates = <<>> THEN None
        ELSE IF Len(candidates) = 1 THEN candidates[1]
        ELSE IF current_pkg_name \in Range(candidates) THEN current_pkg_name
        ELSE IF Truthy(source_hint) /\ Truthy(hinted_pkg) /\ hinted_pkg \in Range(candidates)
        THEN hinted_pkg
        ELSE IF Truthy(source_hint) /\ source_hint \in Range(candidates)
        THEN source_hint
        ELSE candidates[1]

\* ReferenceResolver.resolve_type
resolve_type(idx, type_name, source_hint, current_pkg_name, index) ==
    LET candidates == IF type_name \in DOMAIN index THEN index[type_name] ELSE <<>>
        hinted_pkg == Get(idx.file_stem_to_package, source_hint)
    IN  IF candidates = <<>> THEN None
        ELSE IF Len(candidates) = 1 THEN candidates[1]
        ELSE IF Truthy(source_hint) /\ Truthy(hinted_pkg) /\ hinted_pkg \in Range(candidates)
        THEN hinted_pkg
        ELSE IF Truthy(source_hint) /\ source_hint \in Range(candidates)
        THEN source_hint
        ELSE IF current_pkg_name \in Range(candidates) THEN current_pkg_name
        ELSE candidates[1]

\* the super-type loop of _resolve_package: one pair appended per raw token
resolve_supers(idx, cls, pkg_name) ==
    cls.resolved_supers \o
    [i \in DOMAIN cls.super_types |->
        LET info == extract_type_info_from_uri(cls.super_types[i])
            target_pkg == resolve_type(idx, info[1], info[2], pkg_name, idx.class_index)
        IN  <<IF Truthy(target_pkg) THEN target_pkg ELSE pkg_name, info[1]>>]

\* the reference loop with the enum index consulted before the class index
resolve_reference_enum_first(idx, ref, pkg_name) ==
    LET resolved == resolve_type(idx, ref.e_type, ref.source_hint, pkg_name, idx.enum_index)
        as_class == resolve_type(idx, ref.e_type, ref.source_hint, pkg_name, idx.class_index)
    IN  [ref EXCEPT !.resolved_package =
            IF Truthy(resolved) THEN resolved
            ELSE IF Truthy(as_class) THEN as_class ELSE pkg_name]

\* the reference loop writing the resolved package over the reference's
\* source hint as well
resolve_reference_hint_lost(idx, ref, pkg_name) ==
    LET resolved == resolve_type(idx, ref.e_type, ref.source_hint, pkg_name, idx.class_index)
        as_enum == resolve_type(idx, ref.e_type, ref.source_hint, pkg_name, idx.enum_index)
        target == IF Truthy(resolved) THEN resolved
                  ELSE IF Truthy(as_enum) THEN as_enum ELSE pkg_name
    IN  [ref EXCEPT !.resolved_package = target, !.source_hint = target]

\* the reference loop of _resolve_package, for one reference
resolve_reference(idx, ref, pkg_name) ==
    LET resolved == resolve_type(idx, ref.e_type, ref.source_hint, pkg_name, idx.class_index)
        as_enum == resolve_type(idx, ref.e_type, ref.source_hint, pkg_name, idx.enum_index)
    IN  [ref EXCEPT !.resolved_package =
            IF Truthy(resolved) THEN resolved
            ELSE IF Truthy(as_enum) THEN as_enum ELSE pkg_name]

\* the loop over pkg.classes of _resolve_package
resolve_classes(idx, pkg) ==
    [i \in DOMAIN pkg.classes |->
        [pkg.classes[i] EXCEPT
            !.resolved_supers = resolve_supers(idx, pkg.classes[i], pkg.name),
            !.references = [j \in DOMAIN pkg.classes[i].references |->
                               resolve_reference(idx, pkg.classes[i].references[j], pkg.name)]]]

\* ReferenceResolver._resolve_package
RECURSIVE resolve_package(_, _, _), resolve_packages(_, _, _)
resolve_package(h, idx, ref) ==
    CHOOSE done \in {resolve_packages(own, idx, h[ref].sub_packages) :
                 own \in {[h EXCEPT ![ref].classes = resolve_classes(idx, h[ref])]}} : TRUE

\* the loop over pkg.sub_packages of _resolve_package, and the loop over
\* self.packages of resolve
resolve_packages(h, idx, refs) ==
    IF refs = <<>> THEN h
    ELSE CHOOSE done \in {resolve_packages(next, idx, Tail(refs)) :
                      next \in {resolve_package(h, idx, Head(refs))}} : TRUE

\* ReferenceResolver.resolve: the heap after it
resolve(h, res) == resolve_packages(h, res.indices, res.packages)

----------------------------------------------------------------------------
(* The annotation collector: options is the registry in insertion order,   *)
(* each entry under its lookup <<source_short, key>>.                      *)

\* AnnotationCollector.__init__
NewCollector ==
    [options |-> <<>>, value_samples |-> <<>>, next_field_number |-> EXTENSION_FIELD_START]

HasOption(col, lookup) == \E i \in DOMAIN col.options : col.options[i].lookup = lookup

\* the loop body with the counter advanced for every detail, registered
\* before or not
register_detail_always_counts(col, source, key, value) ==
    LET source_short == shorten_source(source)
        lookup == <<source_short, key>>
        seen == HasOption(col, lookup)
        samples == IF seen THEN col.value_samples[lookup] ELSE {}
    IN  [options |->
            IF seen THEN col.options
            ELSE Append(col.options,
                        [lookup |-> lookup, key |-> key, field_name |-> <<>>,
                         proto_type |-> "string",
                         field_number |-> col.next_field_number,
                         source_short |-> source_short, source_full |-> source]),
         value_samples |-> Put(col.value_samples, lookup, samples \cup {value}),
         next_field_number |-> col.next_field_number + 1]

\* the body of the loop of _register_annotation, for one detail
register_detail(col, source, key, value) ==
    LET source_short == shorten_source(source)
        lookup == <<source_short, key>>
        seen == HasOption(col, lookup)
        samples == IF seen THEN col.value_samples[lookup] ELSE {}
    IN  [options |->
            IF seen THEN col.options
            ELSE Append(col.options,
                        [lookup |-> lookup, key |-> key, field_name |-> <<>>,
                         proto_type |-> "string",
                         field_number |-> col.next_field_number,
                         source_short |-> source_short, source_full |-> source]),
         value_samples |-> Put(col.value_samples, lookup, samples \cup {value}),
         next_field_number |->
            IF seen THEN col.next_field_number ELSE col.next_field_number + 1]

\* the loop over ann.details of _register_annotation
RECURSIVE register_details(_, _, _)
register_details(col, source, details) ==
    IF details = <<>> THEN col
    ELSE CHOOSE done \in {register_details(next, source, Tail(details)) :
                      next \in {register_detail(col, source, Head(details)[1],
                                                Head(details)[2])}} : TRUE

\* AnnotationCollector._register_annotation
register_annotation(col, ann) == register_details(col, ann.source, ann.details)

\* a loop of _scan_package over a list of annotations
RECURSIVE register_annotations(_, _)
register_annotations(col, anns) ==
    IF anns = <<>> THEN col
    ELSE CHOOSE done \in {register_annotations(next, Tail(anns)) :
                      next \in {register_annotation(col, Head(anns))}} : TRUE

\* the annotations _scan_package registers for a class, in its order
class_annotations(cls) ==
    cls.annotations
      \o Flatten([i \in DOMAIN cls.attributes |-> cls.attributes[i].annotations])
      \o Flatten([i \in DOMAIN cls.references |-> cls.references[i].annotations])

\* the annotations _scan_package registers before it recurses, in its order
own_annotations(pkg) ==
    pkg.annotations
      \o Flatten([i \in DOMAIN pkg.classes |-> class_annotations(pkg.classes[i])])
      \o Flatten([i \in DOMAIN pkg.enums |-> pkg.enums[i].annotations])

\* AnnotationCollector._scan_package
RECURSIVE scan_package(_, _, _), scan_each(_, _, _)
scan_package(h, col, ref) ==
    CHOOSE done \in {scan_each(h, own, h[ref].sub_packages) :
                 own \in {register_annotations(col, own_annotations(h[ref]))}} : TRUE

\* the loop over pkg.sub_packages of _scan_package, and the loop over
\* packages of scan_packages
scan_each(h, col, refs) ==
    IF refs = <<>> THEN col
    ELSE CHOOSE done \in {scan_each(h, next, Tail(refs)) :
                      next \in {scan_package(h, col, Head(refs))}} : TRUE

\* needs_prefix asking for more than two sources
needs_prefix_above_two(col, key) ==
    Cardinality({col.options[i].source_short :
                    i \in {j \in DOMAIN col.options : col.options[j].key = key}}) > 2

\* needs_prefix of _finalize: the key is registered under several sources
needs_prefix(col, key) ==
    Cardinality({col.options[i].source_short :
                    i \in {j \in DOMAIN col.options : col.options[j].key = key}}) > 1

\* AnnotationCollector._finalize
finalize(col) ==
    [col EXCEPT !.options =
        [i \in DOMAIN col.options |->
            LET opt == col.options[i]
            IN  [opt EXCEPT
                    !.proto_type = infer_proto_type(
                        IF opt.lookup \in DOMAIN col.value_samples
                        THEN col.value_samples[opt.lookup] ELSE {}),
                    !.field_name = to_option_field_name(
                        IF needs_prefix(col, opt.key) THEN opt.source_short ELSE <<>>,
                        opt.key)]]]

\* AnnotationCollector.scan_packages
scan_packages(h, col, packages) == finalize(scan_each(h, col, packages))

\* AnnotationCollector.has_annotations
has_annotations(col) == Len(col.options) > 0

----------------------------------------------------------------------------
(* The generator *)

\* ProtoGenerator._generate_enum: the literal lines of the enum block, each
\* with its name and value
generate_enum(enum) ==
    LET has_zero == \E i \in DOMAIN enum.literals : enum.literals[i].value = 0
        unspecified == [name |-> to_enum_value_name(enum.name,
                                    <<"U","N","S","P","E","C","I","F","I","E","D">>),
                        value |-> 0]
    IN  (IF has_zero THEN <<>> ELSE <<unspecified>>)
          \o [i \in DOMAIN enum.literals |->
                [name |-> to_enum_value_name(enum.name, enum.literals[i].name),
                 value |-> enum.literals[i].value]]

\* f"{n}" for an int n >= 0
RECURSIVE IntText(_)
IntText(n) ==
    LET digits == <<"0","1","2","3","4","5","6","7","8","9">>
    IN  IF n < 10 THEN <<digits[n + 1]>>
        ELSE IntText(n \div 10) \o <<digits[(n % 10) + 1]>>

\* ProtoGenerator._to_field_name
to_field_name(name) ==
    LET s == IF name = Upper(name) \/ Contains(name, <<"_">>)
             THEN Lower(name)
             ELSE Lower(SubUpperRun(SubLowerUpper(name)))
        clean == Strip(CollapseUnderscores(ReplaceOutside(s, LowerSet \cup DigitSet \cup {"_"})),
                       {"_"})
        named == IF clean /= <<>> /\ clean[1] \in DigitSet
                 THEN <<"f","i","e","l","d","_">> \o clean
                 ELSE clean
    IN  IF named /= <<>> THEN named ELSE <<"u","n","k","n","o","w","n">>

\* ProtoGenerator._to_proto_package, with the empty proto_package_prefix
\* convert passes by default
to_proto_package(name) ==
    LET low == Lower(name)
    IN  [i \in DOMAIN low |-> IF low[i] \in {"-", "."} THEN "_" ELSE low[i]]

\* ProtoGenerator._resolve_attribute_type
resolve_attribute_type(idx, attr, current_pkg) ==
    LET type_name == attr.e_type
        dts == SelectSeq(current_pkg.data_types,
                         LAMBDA dt : /\ dt.name = type_name
                                     /\ Truthy(dt.instance_class_name)
                                     /\ dt.instance_class_name \in DOMAIN ECORE_TO_PROTO_TYPE)
        enum_pkg == resolve_type(idx, type_name, attr.source_hint, current_pkg.name,
                                 idx.enum_index)
    IN  IF type_name \in DOMAIN ECORE_TO_PROTO_TYPE THEN ECORE_TO_PROTO_TYPE[type_name]
        ELSE IF dts /= <<>> THEN ECORE_TO_PROTO_TYPE[dts[1].instance_class_name]
        ELSE IF \E i \in DOMAIN current_pkg.enums : current_pkg.enums[i].name = type_name
        THEN to_proto_name(type_name)
        ELSE IF Truthy(enum_pkg)
        THEN IF enum_pkg = current_pkg.name THEN to_proto_name(type_name)
             ELSE to_proto_package(enum_pkg) \o <<".">> \o to_proto_name(type_name)
        ELSE IF /\ type_name \in DOMAIN idx.datatype_index
                /\ idx.datatype_index[type_name] \in DOMAIN ECORE_TO_PROTO_TYPE
        THEN ECORE_TO_PROTO_TYPE[idx.datatype_index[type_name]]
        ELSE <<"s","t","r","i","n","g">>

\* ProtoGenerator._resolve_reference_type
resolve_reference_type(ref, current_pkg) ==
    IF \E i \in DOMAIN current_pkg.classes : current_pkg.classes[i].name = ref.e_type
    THEN to_proto_name(ref.e_type)
    ELSE IF Truthy(ref.resolved_package) /\ ref.resolved_package /= current_pkg.name
    THEN to_proto_package(ref.resolved_package) \o <<".">> \o to_proto_name(ref.e_type)
    ELSE to_proto_name(ref.e_type)

\* AnnotationCollector.get_option_for: <<the registered option>>, or <<>> for
\* None
get_option_for(col, ann, key) ==
    LET lookup == <<shorten_source(ann.source), key>>
    IN  SelectSeq(col.options, LAMBDA opt : opt.lookup = lookup)

\* ProtoGenerator._format_option_value
format_option_value(value, proto_type) ==
    IF proto_type = "bool" THEN Lower(value)
    ELSE IF proto_type \in {"int32", "int64", "float", "double"} THEN value
    ELSE <<"\"">>
           \o Flatten([i \in DOMAIN value |->
                         IF value[i] = "\\" THEN <<"\\", "\\">>
                         ELSE IF value[i] = "\"" THEN <<"\\", "\"">>
                         ELSE <<value[i]>>])
           \o <<"\"">>

\* the loop over ann.details of _collect_field_options
option_parts_of(col, ann) ==
    LET part(detail) ==
            LET opt_def == get_option_for(col, ann, detail[1])
            IN  IF opt_def = <<>> THEN <<>>
                ELSE << <<"(">> \o options_package \o <<".">> \o opt_def[1].field_name
                          \o <<")"," ","="," ">>
                          \o format_option_value(detail[2], opt_def[1].proto_type) >>
    IN  Flatten([i \in DOMAIN ann.details |-> part(ann.details[i])])

\* ProtoGenerator._collect_field_options, for the collector convert passes
collect_field_options(col, annotations) ==
    Flatten([i \in DOMAIN annotations |-> option_parts_of(col, annotations[i])])

\* _format_field_line with a comma after every option of a block, the last
\* one too
format_field_line_all_commas(type_str, field_name, field_number, option_parts, comment) ==
    LET decl == <<" ", " ">> \o type_str \o <<" ">> \o field_name \o <<" ", "=", " ">>
                  \o IntText(field_number)
    IN  IF option_parts = <<>> THEN <<decl \o <<";">> \o comment>>
        ELSE IF Len(option_parts) = 1
        THEN <<decl \o <<" ", "[">> \o option_parts[1] \o <<"]", ";">> \o comment>>
        ELSE <<decl \o <<" ", "[">> >>
               \o [i \in DOMAIN option_parts |->
                     <<" ", " ", " ", " ">> \o option_parts[i] \o <<",">>]
               \o << <<" ", " ", "]", ";">> \o comment >>

\* ProtoGenerator._format_field_line: the lines of one field
format_field_line(type_str, field_name, field_number, option_parts, comment) ==
    LET decl == <<" ", " ">> \o type_str \o <<" ">> \o field_name \o <<" ", "=", " ">>
                  \o IntText(field_number)
        option_line(i) == <<" ", " ", " ", " ">> \o option_parts[i]
                            \o (IF i < Len(option_parts) THEN <<",">> ELSE <<>>)
    IN  IF option_parts = <<>> THEN <<decl \o <<";">> \o comment>>
        ELSE IF Len(option_parts) = 1
        THEN <<decl \o <<" ", "[">> \o option_parts[1] \o <<"]", ";">> \o comment>>
        ELSE <<decl \o <<" ", "[">> >>
               \o [i \in DOMAIN option_parts |-> option_line(i)]
               \o << <<" ", " ", "]", ";">> \o comment >>

\* fields.append(...) and field_number += step at the end of a turn of one of
\* the loops of _generate_message: out holds the fields rendered so far and
\* the counter field_number
add_field(out, kind, proto_type, type_str, field_name, option_parts, lines, step) ==
    [fields |-> Append(out.fields,
                  [kind |-> kind, type |-> proto_type, type_str |-> type_str,
                   name |-> field_name, number |-> out.field_number,
                   option_parts |-> option_parts, lines |-> lines]),
     field_number |-> out.field_number + step]

\* the two lines of an inherited field
super_lines(super, proto_super_name, field_name, field_number) ==
    << <<" "," ","/","/"," ","I","n","h","e","r","i","t","e","d"," ","f","r","o","m"," ">> \o super[2],
       <<" ", " ">> \o proto_super_name \o <<" ">> \o field_name \o <<" ", "=", " ">>
         \o IntText(field_number) \o <<";">> >>

\* the turn of the loop over cls.resolved_supers of _generate_message
super_field(out, super, current_pkg) ==
    CHOOSE done \in
      {add_field(out, "super", proto_super_name, proto_super_name, field_name, <<>>,
                 super_lines(super, proto_super_name, field_name, out.field_number), 1) :
         proto_super_name \in {IF super[1] /= current_pkg.name
                               THEN to_proto_package(super[1]) \o <<".">> \o to_proto_name(super[2])
                               ELSE to_proto_name(super[2])},
         field_name \in {to_field_name(super[2])}} : TRUE

\* "repeated " for a feature of upper bound -1
repeated_prefix(feature) ==
    IF feature.upper_bound = -1 THEN <<"r","e","p","e","a","t","e","d"," ">> ELSE <<>>

\* the comment at the end of an attribute's line
attribute_comment(attr) ==
    IF attr.default_value /= None
    THEN <<" "," ","/","/"," ","d","e","f","a","u","l","t",":"," ">> \o attr.default_value
    ELSE <<>>

\* the comment at the end of a reference's line
reference_comment(ref) ==
    LET opposite == IF Truthy(ref.opposite)
                    THEN <<"o","p","p","o","s","i","t","e",":"," ">> \o ref.opposite
                    ELSE <<>>
    IN  IF ref.containment
        THEN <<" "," ","/","/"," ">> \o <<"c","o","n","t","a","i","n","m","e","n","t">>
               \o (IF opposite /= <<>> THEN <<",", " ">> \o opposite ELSE <<>>)
        ELSE IF opposite /= <<>> THEN <<" "," ","/","/"," ">> \o opposite
        ELSE <<>>

\* the turn of the attribute loop without field_number += 1
attribute_field_same_number(idx, col, out, attr, current_pkg) ==
    CHOOSE done \in
      {add_field(out, "attribute", proto_type, repeated_prefix(attr) \o proto_type,
                 field_name, option_parts,
                 format_field_line(repeated_prefix(attr) \o proto_type, field_name,
                                   out.field_number, option_parts, attribute_comment(attr)), 0) :
         proto_type \in {resolve_attribute_type(idx, attr, current_pkg)},
         field_name \in {to_field_name(attr.name)},
         option_parts \in {collect_field_options(col, attr.annotations)}} : TRUE

\* the turn of the loop over cls.attributes of _generate_message
attribute_field(idx, col, out, attr, current_pkg) ==
    CHOOSE done \in
      {add_field(out, "attribute", proto_type, repeated_prefix(attr) \o proto_type,
                 field_name, option_parts,
                 format_field_line(repeated_prefix(attr) \o proto_type, field_name,
                                   out.field_number, option_parts, attribute_comment(attr)), 1) :
         proto_type \in {resolve_attribute_type(idx, attr, current_pkg)},
         field_name \in {to_field_name(attr.name)},
         option_parts \in {collect_field_options(col, attr.annotations)}} : TRUE

\* the turn of the loop over cls.references of _generate_message
reference_field(col, out, ref, current_pkg) ==
    CHOOSE done \in
      {add_field(out, "reference", proto_type, repeated_prefix(ref) \o proto_type,
                 field_name, option_parts,
                 format_field_line(repeated_prefix(ref) \o proto_type, field_name,
                                   out.field_number, option_parts, reference_comment(ref)), 1) :
         proto_type \in {resolve_reference_type(ref, current_pkg)},
         field_name \in {to_field_name(ref.name)},
         option_parts \in {collect_field_options(col, ref.annotations)}} : TRUE

\* the three loops of _generate_message
RECURSIVE super_fields(_, _, _)
super_fields(out, supers, current_pkg) ==
    IF supers = <<>> THEN out
    ELSE CHOOSE done \in {super_fields(next, Tail(supers), current_pkg) :
                      next \in {super_field(out, Head(supers), current_pkg)}} : TRUE

RECURSIVE attribute_fields(_, _, _, _, _)
attribute_fields(idx, col, out, attrs, current_pkg) ==
    IF attrs = <<>> THEN out
    ELSE CHOOSE done \in {attribute_fields(idx, col, next, Tail(attrs), current_pkg) :
                      next \in {attribute_field(idx, col, out, Head(attrs), current_pkg)}} : TRUE

RECURSIVE reference_fields(_, _, _, _)
reference_fields(col, out, refs, current_pkg) ==
    IF refs = <<>> THEN out
    ELSE CHOOSE done \in {reference_fields(col, next, Tail(refs), current_pkg) :
                      next \in {reference_field(col, out, Head(refs), current_pkg)}} : TRUE

\* the comment lines _generate_message writes above a message
message_comments(cls) ==
    LET of(ann) == [i \in DOMAIN ann.details |->
                      <<"/","/"," ","@">> \o shorten_source(ann.source) \o <<".">> \o ann.details[i][1]
                        \o <<":", " ">> \o ann.details[i][2]]
    IN  (IF cls.abstract THEN << <<"/","/"," ","A","b","s","t","r","a","c","t"," ","b","a","s","e",":"," ">> \o cls.name >> ELSE <<>>)
          \o (IF cls.interface THEN << <<"/","/"," ","I","n","t","e","r","f","a","c","e",":"," ">> \o cls.name >> ELSE <<>>)
          \o Flatten([i \in DOMAIN cls.annotations |-> of(cls.annotations[i])])

\* the lines _generate_message returns for a class and its rendered fields
message_lines(cls, fields) ==
    message_comments(cls)
      \o << <<"m","e","s","s","a","g","e"," ">> \o to_proto_name(cls.name) \o <<" ", "{">> >>
      \o Flatten([i \in DOMAIN fields |-> fields[i].lines])
      \o << <<"}">> >>

\* ProtoGenerator._generate_message: lines is what it returns, fields is the
\* same fields one by one, each with the lines it takes
generate_message(idx, col, cls, current_pkg) ==
    CHOOSE message \in
      {[name |-> to_proto_name(cls.name), fields |-> refs.fields,
        lines |-> message_lines(cls, refs.fields)] :
         refs \in {reference_fields(col,
                      attribute_fields(idx, col,
                         super_fields([fields |-> <<>>, field_number |-> 1],
                                      cls.resolved_supers, current_pkg),
                         cls.attributes, current_pkg),
                      cls.references, current_pkg)}} : TRUE

\* the characters of the texts above in the order of their code points, which
\* is the order Python compares str by
CodeOrder ==
    <<" ","!","\"","#","$","%","&","'","(",")","*","+",",","-",".","/">>
      \o <<"0","1","2","3","4","5","6","7","8","9",":",";","<","=",">","?">>
      \o <<"@","A","B","C","D","E","F","G","H","I","J","K","L","M","N","O">>
      \o <<"P","Q","R","S","T","U","V","W","X","Y","Z","[","\\","]","^","_">>
      \o <<"a","b","c","d","e","f","g","h","i","j","k","l","m","n","o">>
      \o <<"p","q","r","s","t","u","v","w","x","y","z","{","|","}","~">>

\* a < b for two str
RECURSIVE TextLess(_, _)
TextLess(a, b) ==
    LET ord(c) == CHOOSE i \in DOMAIN CodeOrder : CodeOrder[i] = c
    IN  IF b = <<>> THEN FALSE
        ELSE IF a = <<>> THEN TRUE
        ELSE IF a[1] /= b[1] THEN ord(a[1]) < ord(b[1])
        ELSE TextLess(Tail(a), Tail(b))

\* sorted(s) for a set of str
RECURSIVE sorted(_)
sorted(s) ==
    IF s = {} THEN <<>>
    ELSE LET least == CHOOSE a \in s : \A b \in s \ {a} : TextLess(a, b)
         IN  <<least>> \o sorted(s \ {least})

\* _collect_imports looking at the declared type of an attribute only, not
\* at the type it is rendered with
collect_imports_declared_type(idx, col, cls, current_pkg) ==
    LET well_known(attr) ==
            IF /\ attr.e_type \in DOMAIN ECORE_TO_PROTO_TYPE
               /\ ECORE_TO_PROTO_TYPE[attr.e_type] \in DOMAIN WELL_KNOWN_TYPE_IMPORTS
            THEN {WELL_KNOWN_TYPE_IMPORTS[ECORE_TO_PROTO_TYPE[attr.e_type]]} ELSE {}
        annotated(feature) ==
            IF feature.annotations /= <<>> /\ has_annotations(col)
            THEN {options_filename} ELSE {}
        crossing(ref) ==
            IF Truthy(ref.resolved_package) /\ ref.resolved_package /= current_pkg.name
            THEN {package_to_filename(ref.resolved_package)} ELSE {}
    IN  UNION {well_known(cls.attributes[i]) \cup annotated(cls.attributes[i]) :
                  i \in DOMAIN cls.attributes}
        \cup UNION {crossing(cls.references[i]) \cup annotated(cls.references[i]) :
                       i \in DOMAIN cls.references}
        \cup {package_to_filename(cls.resolved_supers[i][1]) :
                 i \in {j \in DOMAIN cls.resolved_supers :
                           cls.resolved_supers[j][1] /= current_pkg.name}}

\* ProtoGenerator._collect_imports
collect_imports(idx, col, cls, current_pkg) ==
    LET well_known(attr) ==
            LET proto_type == resolve_attribute_type(idx, attr, current_pkg)
            IN  IF proto_type \in DOMAIN WELL_KNOWN_TYPE_IMPORTS
                THEN {WELL_KNOWN_TYPE_IMPORTS[proto_type]} ELSE {}
        annotated(feature) ==
            IF feature.annotations /= <<>> /\ has_annotations(col)
            THEN {options_filename} ELSE {}
        crossing(ref) ==
            IF Truthy(ref.resolved_package) /\ ref.resolved_package /= current_pkg.name
            THEN {package_to_filename(ref.resolved_package)} ELSE {}
    IN  UNION {well_known(cls.attributes[i]) \cup annotated(cls.attributes[i]) :
                  i \in DOMAIN cls.attributes}
        \cup UNION {crossing(cls.references[i]) \cup annotated(cls.references[i]) :
                       i \in DOMAIN cls.references}
        \cup {package_to_filename(cls.resolved_supers[i][1]) :
                 i \in {j \in DOMAIN cls.resolved_supers :
                           cls.resolved_supers[j][1] /= current_pkg.name}}

\* the lines _generate_enum returns
enum_lines(enum) ==
    LET literals == generate_enum(enum)
        value(n) == IF n < 0 THEN <<"-">> \o IntText(0 - n) ELSE IntText(n)
    IN  << <<"e","n","u","m"," ">> \o to_proto_name(enum.name) \o <<" ", "{">> >>
          \o [i \in DOMAIN literals |->
                <<" ", " ">> \o literals[i].name \o <<" ", "=", " ">>
                  \o value(literals[i].value) \o <<";">>]
          \o << <<"}">> >>

\* while lines and lines[-1] == "": lines.pop()
RECURSIVE RStripLines(_)
RStripLines(lines) ==
    IF lines /= <<>> /\ lines[Len(lines)] = <<>>
    THEN RStripLines(SubSeq(lines, 1, Len(lines) - 1))
    ELSE lines

\* the content _generate_proto_file returns, line by line, for the sorted
\* imports and the rendered messages of a package
file_lines(pkg, sorted_imports, messages) ==
    RStripLines(
        << <<"s","y","n","t","a","x"," ","="," ","\"","p","r","o","t","o","3","\"",";">>, <<>>, <<"p","a","c","k","a","g","e"," ">> \o to_proto_package(pkg.name) \o <<";">>, <<>> >>
          \o (IF sorted_imports = <<>> THEN <<>>
              ELSE [i \in DOMAIN sorted_imports |->
                      <<"i","m","p","o","r","t"," ","\"">> \o sorted_imports[i] \o <<"\"", ";">>] \o << <<>> >>)
          \o Flatten([i \in DOMAIN pkg.enums |-> enum_lines(pkg.enums[i]) \o << <<>> >>])
          \o Flatten([i \in DOMAIN messages |-> messages[i].lines \o << <<>> >>]))
      \o << <<>> >>

\* ProtoGenerator._generate_proto_file with the empty java and go package
\* prefixes convert passes by default: lines is the content it returns, line
\* by line
generate_proto_file(idx, col, pkg) ==
    CHOOSE file \in
      {[imports |-> sorted_imports,
        enums |-> [i \in DOMAIN pkg.enums |-> generate_enum(pkg.enums[i])],
        messages |-> messages,
        lines |-> file_lines(pkg, sorted_imports, messages)] :
         sorted_imports \in {sorted(UNION {collect_imports(idx, col, pkg.classes[i], pkg) :
                                              i \in DOMAIN pkg.classes})},
         messages \in {[i \in DOMAIN pkg.classes |->
                          generate_message(idx, col, pkg.classes[i], pkg)]}} : TRUE

\* ProtoGenerator._generate_package: each package
\* is rendered under its filename, a later unit of the same filename
\* replacing an earlier one.  A unit is recorded by the package it renders
\* and the content rendered for it.
RECURSIVE generate_package(_, _, _, _, _), generate_each(_, _, _, _, _)
generate_package(h, idx, col, result, ref) ==
    CHOOSE done \in {generate_each(h, idx, col, own, h[ref].sub_packages) :
                 own \in {Put(result, package_to_filename(h[ref].name),
                              [unit |-> "package", package |-> ref,
                               content |-> generate_proto_file(idx, col, h[ref])])}} : TRUE

\* the loop over pkg.sub_packages of _generate_package, and the loop over
\* self.all_packages of generate_all
generate_each(h, idx, col, result, refs) ==
    IF refs = <<>> THEN result
    ELSE CHOOSE done \in {generate_each(h, idx, col, next, Tail(refs)) :
                      next \in {generate_package(h, idx, col, result, Head(refs))}} : TRUE

\* ProtoGenerator.generate_all
generate_all(h, idx, all_pkgs, col) ==
    generate_each(h, idx, col,
                  IF has_annotations(col)
                  THEN Put(<<>>, options_filename, [unit |-> "options", package |-> <<>>])
                  ELSE <<>>,
                  all_pkgs)

----------------------------------------------------------------------------
(* Inputs: a small library of input files *)

MaxUnits == 2

MaxCalls == 2

MaxLiterals == 2

MaxNameLen == 3

AnnE(source, details) == [source |-> source, details |-> details]

FeatureE(name, eType, lowerBound, upperBound, anns) ==
    [name |-> name, eType |-> eType, lowerBound |-> lowerBound,
     upperBound |-> upperBound, eAnnotations |-> anns,
     defaultValueLiteral |-> None, containment |-> None, eOpposite |-> None]

ClassE(name, eSuperTypes, attributes, references, anns) ==
    [name |-> name, eSuperTypes |-> eSuperTypes, attributes |-> attributes,
     references |-> references, eAnnotations |-> anns,
     abstract |-> None, interface |-> None]

EnumE(name, eLiterals, anns) == [name |-> name, eLiterals |-> eLiterals, eAnnotations |-> anns]

DataTypeE(name, instanceClassName) == [name |-> name, instanceClassName |-> instanceClassName]

PackageE(name, anns, classes, enums, data_types, eSubpackages) ==
    [name |-> name, eAnnotations |-> anns, classes |-> classes, enums |-> enums,
     data_types |-> data_types, eSubpackages |-> eSubpackages]

UnitE(path, wellFormed, tag, elems) ==
    [path |-> path, wellFormed |-> wellFormed, tag |-> tag, elems |-> elems]

tShape == <<"S","h","a","p","e">>

tStatus == <<"S","t","a","t","u","s">>

tLabel == <<"l","a","b","e","l">>

tHere(name) == <<"#","/","/">> \o name

tInB(name) == <<"b",".","e","c","o","r","e","#","/","/">> \o name

tUiSource == <<"h","t","t","p",":","/","/","e","x",".","c","o","m","/","u","i">>

tGenModel == <<"h","t","t","p",":","/","/","e",".","o","r","g","/","G","e","n","M","o","d","e","l">>

tEcore(name) == <<"e","c","o","r","e",":","E","D","a","t","a","T","y","p","e"," ",
                  "h","t","t","p",":","/","/","w","w","w",".","e","c","l","i","p","s","e",".",
                  "o","r","g","/","e","m","f","/","2","0","0","2","/","E","c","o","r","e",
                  "#","/","/">> \o name

tEString == tEcore(<<"E","S","t","r","i","n","g">>)

tEDate == tEcore(<<"E","D","a","t","e">>)

\* shapes.ecore: package A with a nested sub-package Inner and, below it, Deep
UnitShapes ==
    UnitE(<<"s","h","a","p","e","s",".","e","c","o","r","e">>, TRUE, "EPackage", <<
      PackageE(<<"A">>, <<>>,
        << ClassE(tShape, <<>>,
             << FeatureE(tLabel, tEString, <<"0">>, <<"1">>,
                  << AnnE(tUiSource, << <<tLabel, <<"N">>>>,
                                        <<<<"r","e","a","d","O","n","l","y">>, <<"t","r","u","e">>>> >>) >>) >>,
             <<>>, <<>>),
           ClassE(<<"C","i","r","c","l","e">>, tHere(tShape),
             << [FeatureE(<<"r","a","d","i","u","s">>, tEcore(<<"E","D","o","u","b","l","e">>),
                          <<"0">>, <<"1">>, <<>>)
                   EXCEPT !.defaultValueLiteral = <<"1",".","0">>] >>,
             << [FeatureE(<<"p","e","e","r">>, tInB(tShape), <<"0">>, <<"-","1">>, <<>>)
                   EXCEPT !.containment = <<"t","r","u","e">>] >>,
             <<>>) >>,
        <<>>, <<>>,
        << PackageE(<<"I","n","n","e","r">>, <<>>,
             << ClassE(<<"D","o","t">>, tHere(tShape) \o <<" ">> \o tInB(tShape), <<>>, <<>>, <<>>) >>,
             <<>>, <<>>,
             << PackageE(<<"D","e","e","p">>, <<>>,
                  << ClassE(<<"S","p","e","c","k">>, tHere(<<"I","n","n","e","r","/","D","o","t">>),
                            <<>>, <<>>, <<>>) >>,
                  <<>>, <<>>, <<>>) >>) >>) >>)

\* b.ecore: package B, which defines a second Shape, an enum and two data types
UnitB ==
    UnitE(<<"b",".","e","c","o","r","e">>, TRUE, "EPackage", <<
      PackageE(<<"B">>, <<>>,
        << ClassE(tShape, <<>>, <<>>, <<>>, <<>>),
           ClassE(<<"B","o","x">>, <<>>,
             << FeatureE(<<"k","i","n","d">>, tHere(tStatus), <<"1">>, <<"1">>, <<>>),
                FeatureE(<<"d","u","e">>, tHere(<<"D","a","y">>), <<"0">>, <<"1">>, <<>>) >>,
             << FeatureE(<<"s","h","a","p","e">>, tHere(tShape), <<"0">>, <<"1">>,
                  << AnnE(tGenModel, << <<tLabel, <<"x">>>>, <<<<"d","o","c">>, <<"1","2">>>> >>) >>),
                FeatureE(<<"s","t">>, tHere(tStatus), <<"0">>, <<"1">>, <<>>),
                FeatureE(<<"g","h","o","s","t">>, tHere(<<"G","o","n","e">>), <<"0">>, <<"1">>, <<>>) >>,
             <<>>) >>,
        << EnumE(tStatus, << <<<<"A","c","t","i","v","e">>, <<"1">>>>,
                             <<<<"C","l","o","s","e","d">>, <<"2">>>> >>,
                 << AnnE(<<"u","i">>, << <<<<"o","r","d","e","r">>, <<"3">>>> >>) >>) >>,
        << DataTypeE(<<"M","o","n","e","y">>, <<"l","o","n","g">>),
           DataTypeE(<<"D","a","y">>, <<"j","a","v","a",".","u","t","i","l",".","D","a","t","e">>) >>,
        <<>>) >>)

\* foo.ecore and lower.ecore: packages Foo and foo; an attribute of Foo has
\* the enum of package B as its type
UnitFoo ==
    UnitE(<<"f","o","o",".","e","c","o","r","e">>, TRUE, "EPackage", <<
      PackageE(<<"F","o","o">>, <<>>,
        << [ClassE(<<"X">>, <<>>,
              << FeatureE(<<"w","h","e","n">>, tEDate, <<"0">>, <<"1">>,
                   << AnnE(<<"u","i">>, << <<<<"f","o","r","m","a","t">>, <<"i","s","o">>>> >>) >>),
                 FeatureE(<<"s","t","a","m","p">>, tEDate, <<"0">>, <<"1">>, <<>>),
                 FeatureE(<<"t","a","g","s">>, tEcore(<<"E","E","L","i","s","t">>),
                          <<"0">>, <<"1">>, <<>>),
                 FeatureE(<<"s","t","a","t","e">>, tInB(tStatus), <<"0">>, <<"1">>, <<>>) >>,
              <<>>, <<>>)
              EXCEPT !.abstract = <<"t","r","u","e">>] >>,
        <<>>, <<>>, <<>>) >>)

UnitLowerFoo ==
    UnitE(<<"l","o","w","e","r",".","e","c","o","r","e">>, TRUE, "EPackage", <<
      PackageE(<<"f","o","o">>,
               << AnnE(<<"u","i">>, << <<tLabel, <<"f">>>>,
                                       <<<<"r","e","a","d","_","o","n","l","y">>, <<"f","a","l","s","e">>>> >>) >>,
               << ClassE(<<"Y">>, tHere(<<"X">>), <<>>, <<>>, <<>>) >>,
               <<>>, <<>>, <<>>) >>)

\* A.ecore: an XMI root holding packages A (a third Shape, and a User) and C
UnitXmi ==
    UnitE(<<"A",".","e","c","o","r","e">>, TRUE, "XMI", <<
      PackageE(<<"A">>, <<>>,
        << ClassE(tShape, <<>>, <<>>, <<>>, <<>>),
           ClassE(<<"U","s","e","r">>, <<>>, <<>>, <<>>, <<>>) >>,
        <<>>, <<>>, <<>>),
      PackageE(<<"C">>, <<>>,
        << ClassE(<<"U","s","e","r">>, tHere(tShape),
             <<>>,
             << FeatureE(<<"a">>, <<"A",".","e","c","o","r","e","#","/","/">> \o tShape,
                         <<"0">>, <<"1">>, <<>>) >>,
             <<>>) >>,
        << EnumE(tShape, << <<<<"R","o","u","n","d">>, <<"0">>>> >>, <<>>) >>,
        <<>>, <<>>) >>)

\* a file whose markup is malformed
UnitMalformed ==
    UnitE(<<"m","a","l",".","e","c","o","r","e">>, FALSE, "EPackage", <<>>)

\* a well-formed file with a lowerBound that is no integer
UnitBadInt ==
    UnitE(<<"b","a","d",".","e","c","o","r","e">>, TRUE, "EPackage", <<
      PackageE(<<"B","a","d">>, <<>>,
        << ClassE(<<"K">>, <<>>,
             << FeatureE(<<"n">>, <<>>, <<"x">>, <<"1">>, <<>>) >>, <<>>, <<>>) >>,
        <<>>, <<>>, <<>>) >>)

\* a well-formed file whose root is no package and has no name
UnitNoPackage ==
    UnitE(<<"n","o",".","e","c","o","r","e">>, TRUE, "Model", <<
      PackageE(<<>>, <<>>, <<>>, <<>>, <<>>, <<>>) >>)

Library ==
    {UnitShapes, UnitB, UnitFoo, UnitLowerFoo, UnitXmi, UnitMalformed, UnitBadInt, UnitNoPackage}

\* the lists of input files given to convert
UnitLists == UNION {[1..n -> Library] : n \in 0..MaxUnits}

----------------------------------------------------------------------------
(* State *)

VARIABLES
    units,          \* convert's ecore_files
    pc,             \* where convert is
    next_unit,      \* the file the parse loop is at
    reported,       \* the files reported on stderr as failing to parse
    heap,           \* the package objects, by reference
    all_packages,   \* convert's all_packages: references of the root packages
    flat_packages,  \* convert's flat_packages
    resolver,       \* the ReferenceResolver
    collector,      \* the AnnotationCollector
    proto_files,    \* what generate_all returned: filename -> unit
    written,        \* the files written to output_dir
    resolve_calls,  \* how often resolve() has run
    scan_calls,     \* how often scan_packages() has run
    probe           \* the last call of a pure helper made on its own

vars == <<units, pc, next_unit, reported, heap, all_packages, flat_packages, resolver,
          collector, proto_files, written, resolve_calls, scan_calls, probe>>

NoResolver == [built |-> FALSE, packages |-> <<>>, indices |-> EmptyIndices]

NoProbe == [op |-> "none"]

\* all_packages.extend(parser.parse_file(filepath)) for a file that parses:
\* the heap and all_packages after it
parse_into(h, pkgs, unit) ==
    LET roots == root_packages(unit)
        objs == UNION {parse_package(roots[k], unit.path, <<Len(pkgs) + k>>) : k \in DOMAIN roots}
    IN  [heap |-> [r \in (DOMAIN h) \cup {o[1] : o \in objs} |->
                      IF r \in DOMAIN h THEN h[r] ELSE (CHOOSE o \in objs : o[1] = r)[2]],
         all_packages |-> pkgs \o [k \in DOMAIN roots |-> <<Len(pkgs) + k>>]]

\* the state convert starts from, for a list of files out of lists
InitFrom(lists) ==
    /\ units \in lists
    /\ pc = "parse"
    /\ next_unit = 1
    /\ reported = <<>>
    /\ heap = <<>>
    /\ all_packages = <<>>
    /\ flat_packages = <<>>
    /\ resolver = NoResolver
    /\ collector = NewCollector
    /\ proto_files = <<>>
    /\ written = {}
    /\ resolve_calls = 0
    /\ scan_calls = 0
    /\ probe = NoProbe

Init == InitFrom(UnitLists)

----------------------------------------------------------------------------
(* convert *)

\* one turn of the parse loop: ET.ParseError is caught and reported, any
\* other exception leaves convert
ParseFile ==
    /\ pc = "parse"
    /\ next_unit <= Len(units)
    /\ \/ /\ parse_outcome(units[next_unit]) = "ParseError"
          /\ reported' = Append(reported, next_unit)
          /\ next_unit' = next_unit + 1
          /\ UNCHANGED <<pc, heap, all_packages>>
       \/ /\ parse_outcome(units[next_unit]) = "ValueError"
          /\ pc' = "raised"
          /\ UNCHANGED <<reported, next_unit, heap, all_packages>>
       \/ /\ parse_outcome(units[next_unit]) = "ok"
          /\ heap' = parse_into(heap, all_packages, units[next_unit]).heap
          /\ all_packages' = parse_into(heap, all_packages, units[next_unit]).all_packages
          /\ next_unit' = next_unit + 1
          /\ UNCHANGED <<pc, reported>>
    /\ UNCHANGED <<units, flat_packages, resolver, collector, proto_files, written,
                   resolve_calls, scan_calls, probe>>

\* convert without its early return: the passes go on over no package
ReturnEmptySkipped ==
    /\ pc = "parse"
    /\ next_unit > Len(units)
    /\ all_packages = <<>>
    /\ flat_packages' = flatten_packages(heap, all_packages)
    /\ pc' = "index"
    /\ UNCHANGED <<units, next_unit, reported, heap, all_packages, resolver, collector,
                   proto_files, written, resolve_calls, scan_calls, probe>>

\* if not all_packages: return {}
ReturnEmpty ==
    /\ pc = "parse"
    /\ next_unit > Len(units)
    /\ all_packages = <<>>
    /\ proto_files' = <<>>
    /\ pc' = "returned"
    /\ UNCHANGED <<units, next_unit, reported, heap, all_packages, flat_packages, resolver,
                   collector, written, resolve_calls, scan_calls, probe>>

\* flat_packages = flatten_packages(all_packages)
FlattenPackages ==
    /\ pc = "parse"
    /\ next_unit > Len(units)
    /\ all_packages /= <<>>
    /\ flat_packages' = flatten_packages(heap, all_packages)
    /\ pc' = "index"
    /\ UNCHANGED <<units, next_unit, reported, heap, all_packages, resolver, collector,
                   proto_files, written, resolve_calls, scan_calls, probe>>

\* resolver = ReferenceResolver(flat_packages)
BuildResolver ==
    /\ pc = "index"
    /\ resolver' = [built |-> TRUE, packages |-> flat_packages,
                    indices |-> build_indices(heap, flat_packages)]
    /\ pc' = "resolve"
    /\ UNCHANGED <<units, next_unit, reported, heap, all_packages, flat_packages, collector,
                   proto_files, written, resolve_calls, scan_calls, probe>>

\* resolver.resolve()
Resolve ==
    /\ pc = "resolve"
    /\ heap' = resolve(heap, resolver)
    /\ resolve_calls' = resolve_calls + 1
    /\ pc' = "collect"
    /\ UNCHANGED <<units, next_unit, reported, all_packages, flat_packages, resolver,
                   collector, proto_files, written, scan_calls, probe>>

\* annotation_collector.scan_packages(flat_packages)
ScanPackages ==
    /\ pc = "collect"
    /\ collector' = scan_packages(heap, collector, flat_packages)
    /\ scan_calls' = scan_calls + 1
    /\ pc' = "generate"
    /\ UNCHANGED <<units, next_unit, reported, heap, all_packages, flat_packages, resolver,
                   proto_files, written, resolve_calls, probe>>

\* proto_files = generator.generate_all()
GenerateAll ==
    /\ pc = "generate"
    /\ proto_files' = generate_all(heap, resolver.indices, flat_packages, collector)
    /\ pc' = "write"
    /\ UNCHANGED <<units, next_unit, reported, heap, all_packages, flat_packages, resolver,
                   collector, written, resolve_calls, scan_calls, probe>>

\* the loop that writes each unit to output_dir, and the return
WriteOutput ==
    /\ pc = "write"
    /\ written' = DOMAIN proto_files
    /\ pc' = "returned"
    /\ UNCHANGED <<units, next_unit, reported, heap, all_packages, flat_packages, resolver,
                   collector, proto_files, resolve_calls, scan_calls, probe>>

Next ==
    \/ ParseFile
    \/ ReturnEmpty
    \/ FlattenPackages
    \/ BuildResolver
    \/ Resolve
    \/ ScanPackages
    \/ GenerateAll
    \/ WriteOutput

Spec == Init /\ [][Next]_vars

----------------------------------------------------------------------------
(* A client of the library that keeps the resolver and the collector and   *)
(* calls them itself, as often as it likes                                  *)

\* resolver.resolve(), called on a resolver built from flat_packages
ClientResolve ==
    /\ pc = "resolve"
    /\ resolve_calls < MaxCalls
    /\ heap' = resolve(heap, resolver)
    /\ resolve_calls' = resolve_calls + 1
    /\ UNCHANGED <<units, pc, next_unit, reported, all_packages, flat_packages, resolver,
                   collector, proto_files, written, scan_calls, probe>>

\* collector.scan_packages(flat_packages), called on a collector that is kept
ClientScan ==
    /\ pc = "resolve"
    /\ scan_calls < MaxCalls
    /\ collector' = scan_packages(heap, collector, flat_packages)
    /\ scan_calls' = scan_calls + 1
    /\ UNCHANGED <<units, pc, next_unit, reported, heap, all_packages, flat_packages,
                   resolver, proto_files, written, resolve_calls, probe>>

NextClient ==
    \/ ParseFile
    \/ ReturnEmpty
    \/ FlattenPackages
    \/ BuildResolver
    \/ ClientResolve
    \/ ClientScan

SpecClient == Init /\ [][NextClient]_vars

----------------------------------------------------------------------------
(* resolve_type called on its own, on the indices of a resolver *)

\* the files the resolver is built from when resolve_type is called on its own
ResolveLibrary == {UnitShapes, UnitB, UnitXmi, UnitMalformed, UnitBadInt}

ResolveLists == UNION {[1..n -> ResolveLibrary] : n \in 0..MaxUnits}

InitResolveType == InitFrom(ResolveLists)

\* the names, hints and packages resolve_type is called with: those the
\* indices know, one they do not know, and for the hint also None and ""
ProbeTypeNames ==
    (DOMAIN resolver.indices.class_index) \cup (DOMAIN resolver.indices.enum_index)
        \cup {<<"Z">>}

ProbeHints == (DOMAIN resolver.indices.file_stem_to_package) \cup {None, <<>>, <<"q">>}

ProbePackages == {heap[flat_packages[k]].name : k \in DOMAIN flat_packages} \cup {<<"Q">>}

\* one call resolver.resolve_type(type_name, source_hint, current_pkg_name, index)
CallResolveType ==
    /\ pc = "resolve"
    /\ probe = NoProbe
    /\ \E type_name \in ProbeTypeNames, source_hint \in ProbeHints,
          current_pkg_name \in ProbePackages, index \in {"class_index", "enum_index"} :
          probe' = [op |-> "resolve_type", type_name |-> type_name,
                    source_hint |-> source_hint, current_pkg_name |-> current_pkg_name,
                    index |-> index,
                    result |-> resolve_type(resolver.indices, type_name, source_hint,
                                            current_pkg_name, resolver.indices[index])]
    /\ UNCHANGED <<units, pc, next_unit, reported, heap, all_packages, flat_packages,
                   resolver, collector, proto_files, written, resolve_calls, scan_calls>>

NextResolveType ==
    \/ ParseFile
    \/ ReturnEmpty
    \/ FlattenPackages
    \/ BuildResolver
    \/ CallResolveType

SpecResolveType == InitResolveType /\ [][NextResolveType]_vars

----------------------------------------------------------------------------
(* _generate_enum called on its own, on an enum the parser made *)

EnumNames == {tStatus, <<"U","n">>}

EnumLiteralNames ==
    {<<"A","c","t","i","v","e">>, <<"C","l","o","s","e","d">>, <<"O","p","e","n">>,
     <<"S","t","a","t","u","s","O","l","d">>}

EnumLiteralValues == {<<"0">>, <<"1">>, <<"2">>, <<"-","1">>}

\* the enum elements: an enum with up to MaxLiterals literals of distinct names
EnumInputs ==
    {EnumE(name, lits, <<>>) :
        name \in EnumNames,
        lits \in {l \in UNION {[1..n -> EnumLiteralNames \X EnumLiteralValues] :
                                  n \in 0..MaxLiterals} :
                     \A i, j \in DOMAIN l : i /= j => l[i][1] /= l[j][1]}}

InitEnum ==
    /\ units = <<>>
    /\ pc = "enum"
    /\ next_unit = 1
    /\ reported = <<>>
    /\ heap = <<>>
    /\ all_packages = <<>>
    /\ flat_packages = <<>>
    /\ resolver = NoResolver
    /\ collector = NewCollector
    /\ proto_files = <<>>
    /\ written = {}
    /\ resolve_calls = 0
    /\ scan_calls = 0
    /\ probe \in {[op |-> "input", elem |-> e] : e \in EnumInputs}

\* generator._generate_enum(enum) for the enum _parse_enum makes of the element
GenerateEnum ==
    /\ pc = "enum"
    /\ probe.op = "input"
    /\ LET enum == parse_enum(probe.elem, <<"B">>)
       IN  probe' = [op |-> "generate_enum", enum |-> enum, lines |-> generate_enum(enum)]
    /\ UNCHANGED <<units, pc, next_unit, reported, heap, all_packages, flat_packages,
                   resolver, collector, proto_files, written, resolve_calls, scan_calls>>

NextEnum == GenerateEnum

SpecEnum == InitEnum /\ [][NextEnum]_vars

----------------------------------------------------------------------------
(* The classification of one eClassifiers element, on its own *)

\* the values of an XML attribute that may be absent
Optional(values) == {None} \cup values

\* the eClassifiers elements: with or without xsi:type, children, eSuperTypes,
\* abstract, instanceClassName and instanceTypeName
ClassifierInputs ==
    [xsi_type : {<<>>, <<"e","c","o","r","e",":","E","C","l","a","s","s">>,
                 <<"e","c","o","r","e",":","E","E","n","u","m">>,
                 <<"e","c","o","r","e",":","E","D","a","t","a","T","y","p","e">>},
     children : {<<>>, <<<<"e","L","i","t","e","r","a","l","s">>>>, <<<<"e","S","t","r","u","c","t","u","r","a","l","F","e","a","t","u","r","e","s">>>>,
                 <<<<"e","L","i","t","e","r","a","l","s">>,
                   <<"e","S","t","r","u","c","t","u","r","a","l","F","e","a","t","u","r","e","s">>>>},
     eSuperTypes : Optional({tHere(tShape)}),
     abstract : Optional({<<"f","a","l","s","e">>}),
     instanceClassName : Optional({<<"l","o","n","g">>}),
     instanceTypeName : Optional({<<"l","o","n","g">>})]

\* the state before a pure helper is called on one of inputs
InitProbe(at, inputs) ==
    /\ units = <<>>
    /\ pc = at
    /\ next_unit = 1
    /\ reported = <<>>
    /\ heap = <<>>
    /\ all_packages = <<>>
    /\ flat_packages = <<>>
    /\ resolver = NoResolver
    /\ collector = NewCollector
    /\ proto_files = <<>>
    /\ written = {}
    /\ resolve_calls = 0
    /\ scan_calls = 0
    /\ probe \in {[op |-> "input", elem |-> e] : e \in inputs}

InitClassify == InitProbe("classify", ClassifierInputs)

\* the turn of the loop of _parse_package for an eClassifiers child
Classify ==
    /\ pc = "classify"
    /\ probe.op = "input"
    /\ probe' = [op |-> "classify", elem |-> probe.elem, kind |-> classify(probe.elem)]
    /\ UNCHANGED <<units, pc, next_unit, reported, heap, all_packages, flat_packages,
                   resolver, collector, proto_files, written, resolve_calls, scan_calls>>

NextClassify == Classify

SpecClassify == InitClassify /\ [][NextClassify]_vars

----------------------------------------------------------------------------
(* The classification of one eStructuralFeatures element, on its own *)

\* the eStructuralFeatures elements: with or without xsi:type, and an eType
\* token of every shape around a built-in or another type name
FeatureInputs ==
    [xsi_type : {<<>>, <<"e","c","o","r","e",":","E","R","e","f","e","r","e","n","c","e">>,
                 <<"e","c","o","r","e",":","E","A","t","t","r","i","b","u","t","e">>},
     eType : {<<>>} \cup
             {shape \o name :
                 shape \in {<<>>, <<"#","/","/">>, tInB(<<>>), tEcore(<<>>),
                            <<"e","c","o","r","e",":">>,
                            <<"e","c","o","r","e",":","E","C","l","a","s","s"," ","#","/","/">>},
                 name \in {tShape, tStatus, <<"E","S","t","r","i","n","g">>,
                           <<"E","I","n","t">>, <<"E","D","a","t","e">>}}]

InitFeature == InitProbe("feature", FeatureInputs)

\* the turn of the loop of _parse_class for an eStructuralFeatures child
FeatureKind ==
    /\ pc = "feature"
    /\ probe.op = "input"
    /\ probe' = [op |-> "feature_kind", elem |-> probe.elem,
                 kind |-> feature_kind(probe.elem)]
    /\ UNCHANGED <<units, pc, next_unit, reported, heap, all_packages, flat_packages,
                   resolver, collector, proto_files, written, resolve_calls, scan_calls>>

NextFeature == FeatureKind

SpecFeature == InitFeature /\ [][NextFeature]_vars

----------------------------------------------------------------------------
(* Properties of the parser *)

\* C17: the parser trusts an explicit reference or attribute discriminator of
\* a structural feature; without one the feature is a reference exactly when
\* the type name extracted from its type token is not a known built-in scalar
\* type name, and an attribute otherwise, for every shape of the token (with
\* '#//', with an 'ecore:' prefix, or bare).
C17_FeatureKind ==
    probe.op = "feature_kind" =>
        probe.kind =
           (IF Contains(probe.elem.xsi_type, <<"E","R","e","f","e","r","e","n","c","e">>) THEN "reference"
            ELSE IF Contains(probe.elem.xsi_type, <<"E","A","t","t","r","i","b","u","t","e">>) THEN "attribute"
            ELSE IF extract_type_info(probe.elem.eType)[1] \notin DOMAIN ECORE_TO_PROTO_TYPE
            THEN "reference"
            ELSE "attribute")

\* C16: the parser classifies a classifier element by its explicit type
\* discriminator when it has one; otherwise by the first rule that matches:
\* literal-like children make it an enum, structural-feature-like children a
\* class, a native-instance-type attribute a data type, and anything else a
\* class.  This holds for every combination of discriminator, children and
\* attributes.
C16_ClassifierKind ==
    probe.op = "classify" =>
        probe.kind =
           (IF Contains(probe.elem.xsi_type, <<"E","C","l","a","s","s">>) THEN "class"
            ELSE IF Contains(probe.elem.xsi_type, <<"E","E","n","u","m">>) THEN "enum"
            ELSE IF Contains(probe.elem.xsi_type, <<"E","D","a","t","a","T","y","p","e">>) THEN "datatype"
            ELSE IF has_literals(probe.elem) THEN "enum"
            ELSE IF has_structural_features(probe.elem) THEN "class"
            ELSE IF \/ probe.elem.instanceClassName /= None
                    \/ probe.elem.instanceTypeName /= None
            THEN "datatype"
            ELSE "class")

----------------------------------------------------------------------------
(* The two name conversions of the generator, on their own *)

\* the names of attributes, references and packages: up to MaxNameLen
\* characters, lower and upper case letters, digits, underscores and others
NameInputs == UNION {[1..n -> {"a", "B", "9", "_", "-"}] : n \in 0..MaxNameLen}

InitNames == InitProbe("names", NameInputs)

\* _to_field_name(name) as _generate_message calls it and
\* _package_to_filename(name) as _generate_package calls it
ConvertName ==
    /\ pc = "names"
    /\ probe.op = "input"
    /\ probe' = [op |-> "names", name |-> probe.elem,
                 field_name |-> to_field_name(probe.elem),
                 filename |-> package_to_filename(probe.elem)]
    /\ UNCHANGED <<units, pc, next_unit, reported, heap, all_packages, flat_packages,
                   resolver, collector, proto_files, written, resolve_calls, scan_calls>>

NextNames == ConvertName

SpecNames == InitNames /\ [][NextNames]_vars

----------------------------------------------------------------------------
(* The two parsers of a type-reference token, on their own *)

\* what stands before the "#//" of a token: nothing, a file, a path to a
\* file, a name without extension, a framework or XML-schema namespace
TokenFiles ==
    {<<>>, <<"b",".","e","c","o","r","e">>, <<".",".","/","m","/","b",".","e","c","o","r","e">>,
     <<"b">>, <<"b",".","x",".","e","c","o","r","e">>,
     <<"p","l","a","t","f","o","r","m",":","/","r","/","b",".","e","c","o","r","e">>,
     <<"h","t","t","p",":","/","/","w","w","w",".","e","c","l","i","p","s","e",".","o","r","g","/","e","m","f","/","2","0","0","2","/","E","c","o","r","e">>,
     <<"h","t","t","p",":","/","/","w","w","w",".","w","3",".","o","r","g","/","2","0","0","1","/","X","M","L","S","c","h","e","m","a">>}

\* the type-reference tokens: bare or with "#//", with or without an
\* "ecore:EClass " or "ecore:EDataType " prefix
TypeTokens ==
    LET prefixes == {<<>>, <<"e","c","o","r","e",":","E","C","l","a","s","s"," ">>,
                     <<"e","c","o","r","e",":","E","D","a","t","a","T","y","p","e"," ">>}
        paths == {tShape, <<"I","n","n","e","r","/","D","o","t">>, <<>>}
    IN  {prefix \o file \o <<"#","/","/">> \o path :
            prefix \in prefixes, file \in TokenFiles, path \in paths}
        \cup ({prefix \o path : prefix \in prefixes, path \in paths} \ {<<>>})

InitTypeInfo == InitProbe("type_info", TypeTokens)

\* _extract_type_info(token) as _parse_attribute and _parse_reference call
\* it, and _extract_type_info_from_uri(token) as _resolve_package calls it
ExtractTypeInfo ==
    /\ pc = "type_info"
    /\ probe.op = "input"
    /\ probe' = [op |-> "type_info", token |-> probe.elem,
                 parser |-> extract_type_info(probe.elem),
                 resolver |-> extract_type_info_from_uri(probe.elem)]
    /\ UNCHANGED <<units, pc, next_unit, reported, heap, all_packages, flat_packages,
                   resolver, collector, proto_files, written, resolve_calls, scan_calls>>

NextTypeInfo == ExtractTypeInfo

SpecTypeInfo == InitTypeInfo /\ [][NextTypeInfo]_vars

----------------------------------------------------------------------------
(* Properties of the type-token parsers *)

\* C27: for every type-reference token the resolver's re-parse
\* (_extract_type_info_from_uri) yields the same (type name, source hint)
\* pair as the parser's _extract_type_info: for tokens under a framework or
\* XML-schema namespace, tokens with an "ecore:EClass " prefix and bare tokens
\* too.
C27_ParsersAgree ==
    probe.op = "type_info" => probe.parser = probe.resolver

----------------------------------------------------------------------------
(* The values of one annotation key: type inference and rendering, on their own *)

\* values of the details of one (source, key): booleans, integers inside and
\* outside 32 bits, a decimal and a text
SampleValues ==
    {<<"t","r","u","e">>, <<"7">>, <<"-","1">>,
     <<"2","1","4","7","4","8","3","6","4","7">>, <<"2","1","4","7","4","8","3","6","4","8">>,
     <<"-","2","1","4","7","4","8","3","6","4","8">>, <<"-","2","1","4","7","4","8","3","6","4","9">>,
     <<"1",".","5">>, <<"x">>}

\* the sets of values observed for one key
SampleInputs == SUBSET SampleValues \ {{}}

InitOption == InitProbe("option", SampleInputs)

\* _finalize infers the type of the key from its samples, and
\* _collect_field_options renders each value with _format_option_value
RenderOption ==
    /\ pc = "option"
    /\ probe.op = "input"
    /\ LET proto_type == infer_proto_type(probe.elem)
       IN  probe' = [op |-> "option", samples |-> probe.elem, proto_type |-> proto_type,
                     rendered |-> [v \in probe.elem |-> format_option_value(v, proto_type)]]
    /\ UNCHANGED <<units, pc, next_unit, reported, heap, all_packages, flat_packages,
                   resolver, collector, proto_files, written, resolve_calls, scan_calls>>

NextOption == RenderOption

SpecOption == InitOption /\ [][NextOption]_vars

----------------------------------------------------------------------------
(* Properties of option values *)

\* the decimal integer text v denotes a value of [-2^31, 2^31 - 1]
FitsInt32(v) ==
    LET negative == v /= <<>> /\ v[1] = "-"
        digits == LStrip(IF negative THEN Tail(v) ELSE v, {"0"})
        limit == IF negative THEN <<"2","1","4","7","4","8","3","6","4","8">>
                 ELSE <<"2","1","4","7","4","8","3","6","4","7">>
    IN  /\ MatchesInteger(v)
        /\ \/ Len(digits) < Len(limit)
           \/ Len(digits) = Len(limit) /\ ~TextLess(limit, digits)

\* C26: every value rendered for an option whose inferred type is int32 lies
\* in the signed 32-bit range [-2^31, 2^31 - 1].
C26_Int32InRange ==
    (probe.op = "option" /\ probe.proto_type = "int32") =>
        \A v \in probe.samples : FitsInt32(probe.rendered[v])

----------------------------------------------------------------------------
(* Properties of the name conversions *)

\* s is in lowercase-underscore form, is not empty and does not start with a
\* digit
WellFormedName(s) ==
    /\ s /= <<>>
    /\ \A i \in DOMAIN s : s[i] \in LowerSet \cup DigitSet \cup {"_"}
    /\ s[1] \notin DigitSet

\* C19: for every input name, the generated field name and the stem of the
\* generated filename are in lowercase-underscore form, are never empty (a
\* placeholder stands in) and never start with a digit (a fixed token is put
\* in front).
C19_NamesWellFormed ==
    probe.op = "names" =>
        /\ WellFormedName(probe.field_name)
        /\ WellFormedName(BeforeLast(probe.filename, <<".">>))

----------------------------------------------------------------------------
(* Properties of the resolution pass *)

\* the two resolved fields of every class of every package object
ResolvedFields(h) ==
    [ref \in DOMAIN h |->
        [i \in DOMAIN h[ref].classes |->
            [resolved_supers |-> h[ref].classes[i].resolved_supers,
             resolved_package |->
                [j \in DOMAIN h[ref].classes[i].references |->
                    h[ref].classes[i].references[j].resolved_package]]]]

\* C1: resolve is idempotent: a call of resolve() on a resolver that has
\* resolved before leaves every class's resolved_supers and every reference's
\* resolved_package as they were after the first call.
C1_ResolveIdempotent ==
    [][(resolve_calls >= 1 /\ resolve_calls' = resolve_calls + 1)
          => ResolvedFields(heap') = ResolvedFields(heap)]_vars

\* the package objects without what resolve() writes: every resolved_supers
\* emptied and every resolved_package None
Unresolved(h) ==
    [ref \in DOMAIN h |->
        [h[ref] EXCEPT !.classes =
            [i \in DOMAIN h[ref].classes |->
                [h[ref].classes[i] EXCEPT
                    !.resolved_supers = <<>>,
                    !.references =
                        [j \in DOMAIN h[ref].classes[i].references |->
                            [h[ref].classes[i].references[j] EXCEPT
                                !.resolved_package = None]]]]]]

\* C15: resolve() changes nothing but the resolved_supers of classes and the
\* resolved_package of references: the indices of the resolver and its list of
\* packages are unchanged, and every package, class, attribute and reference
\* keeps its name, raw tokens, bounds and ownership and its place in the
\* collection that holds it.
C15_ResolveFrame ==
    [][resolve_calls' /= resolve_calls
          => /\ Unresolved(heap') = Unresolved(heap)
             /\ resolver' = resolver
             /\ all_packages' = all_packages
             /\ flat_packages' = flat_packages]_vars

\* resolve() has run and has written both fields: a class has resolved super
\* types and a reference of a class with attributes has a resolved package
C15_Resolved ==
    /\ resolve_calls >= 1
    /\ resolver.indices.class_index /= <<>>
    /\ \E ref \in DOMAIN heap :
          \E i \in DOMAIN heap[ref].classes :
             /\ heap[ref].classes[i].resolved_supers /= <<>>
             /\ heap[ref].classes[i].attributes /= <<>>
             /\ \E j \in DOMAIN heap[ref].classes[i].references :
                   /\ heap[ref].classes[i].references[j].resolved_package /= None
                   /\ Truthy(heap[ref].classes[i].references[j].source_hint)

\* C18: once the indices are built from a flattened list of packages,
\* file_stem_to_package maps the name of every package of the list to itself,
\* whatever the stems of the source files and the order of the packages.
C18_NameMapsToItself ==
    resolver.built =>
        \A k \in DOMAIN flat_packages :
           Get(resolver.indices.file_stem_to_package, heap[flat_packages[k]].name) =
              heap[flat_packages[k]].name

\* C2: after the resolution pass of convert (the resolver built from the
\* flattened list, resolve() run once), every class of every package, nested
\* at any depth, with N raw super-type tokens has exactly N resolved_supers,
\* the i-th carrying the type name parsed from the i-th token.
C2_SupersMatchTokens ==
    resolve_calls = 1 =>
        \A ref \in DOMAIN heap : \A i \in DOMAIN heap[ref].classes :
            LET cls == heap[ref].classes[i]
            IN  /\ Len(cls.resolved_supers) = Len(cls.super_types)
                /\ \A k \in DOMAIN cls.super_types :
                      /\ k \in DOMAIN cls.resolved_supers
                      /\ cls.resolved_supers[k][2] =
                            extract_type_info_from_uri(cls.super_types[k])[1]

\* what each disambiguation rule yields for the call held in probe
ProbeCandidates ==
    LET index == resolver.indices[probe.index]
    IN  IF probe.type_name \in DOMAIN index THEN index[probe.type_name] ELSE <<>>

ProbeRule1 == Get(resolver.indices.file_stem_to_package, probe.source_hint)

ProbeRule2 == probe.source_hint

ProbeRule3 == probe.current_pkg_name

ProbeRule4 == ProbeCandidates[1]

\* the candidate the hint names: what rule (1), else rule (2), picks
ProbeHinted ==
    IF ProbeRule1 \in Range(ProbeCandidates) THEN ProbeRule1
    ELSE IF ProbeRule2 \in Range(ProbeCandidates) THEN ProbeRule2
    ELSE None

ByIndex(ref, i, j, index) ==
    LET r == heap[ref].classes[i].references[j]
    IN  resolve_type(resolver.indices, r.e_type, r.source_hint, heap[ref].name,
                     resolver.indices[index])

----------------------------------------------------------------------------
(* Properties of enum rendering *)

\* C5: for every enum (any literals with any values, none at all or repeated
\* values included) the rendered block has exactly one literal of value 0,
\* and the synthesized UNSPECIFIED literal is there exactly when no source
\* literal has value 0.
C5_OneZeroLiteral ==
    probe.op = "generate_enum" =>
        LET zeros == {i \in DOMAIN probe.lines : probe.lines[i].value = 0}
            source_zero == \E i \in DOMAIN probe.enum.literals :
                              probe.enum.literals[i].value = 0
            synthesized == Len(probe.lines) > Len(probe.enum.literals)
        IN  /\ Cardinality(zeros) = 1
            /\ synthesized <=> ~source_zero

\* C22: in every rendered enum block the first literal has value 0, whatever
\* the order and the values of the source literals.
C22_FirstLiteralZero ==
    probe.op = "generate_enum" =>
        /\ probe.lines /= <<>>
        /\ probe.lines[1].value = 0

\* C12: every source literal is rendered under <enum name in upper snake>_
\* <literal name in upper snake>, or under the literal's upper-snake form alone
\* when that form already starts with the enum's upper-snake prefix; when no
\* source literal has value 0 the synthesized literal is named
\* <ENUM_NAME>_UNSPECIFIED and is the first of the block (Status with Active=1,
\* Closed=2 renders STATUS_UNSPECIFIED=0, STATUS_ACTIVE=1, STATUS_CLOSED=2).
C12_LiteralNames ==
    probe.op = "generate_enum" =>
        LET prefix == camel_to_upper_snake(probe.enum.name)
            literals == probe.enum.literals
            synthesized == ~\E i \in DOMAIN literals : literals[i].value = 0
            rendered(i) == probe.lines[i + (IF synthesized THEN 1 ELSE 0)]
            expected(i) ==
                LET value == camel_to_upper_snake(literals[i].name)
                IN  IF StartsWith(value, prefix) THEN value
                    ELSE prefix \o <<"_">> \o value
        IN  /\ Len(probe.lines) = Len(literals) + (IF synthesized THEN 1 ELSE 0)
            /\ \A i \in DOMAIN literals :
                  /\ rendered(i).name = expected(i)
                  /\ rendered(i).value = literals[i].value
            /\ synthesized =>
                  probe.lines[1] =
                     [name |-> prefix \o <<"_","U","N","S","P","E","C","I","F","I","E","D">>,
                      value |-> 0]
            /\ (/\ probe.enum.name = tStatus
                /\ literals = << [name |-> <<"A","c","t","i","v","e">>, value |-> 1],
                                 [name |-> <<"C","l","o","s","e","d">>, value |-> 2] >>)
               => probe.lines =
                     << [name |-> <<"S","T","A","T","U","S","_","U","N","S","P","E","C","I","F",
                                    "I","E","D">>, value |-> 0],
                        [name |-> <<"S","T","A","T","U","S","_","A","C","T","I","V","E">>,
                         value |-> 1],
                        [name |-> <<"S","T","A","T","U","S","_","C","L","O","S","E","D">>,
                         value |-> 2] >>

----------------------------------------------------------------------------
(* Properties of the annotation collector *)

\* the (shortened source, key) of every detail of the annotations, in order
PairsOf(anns) ==
    Flatten([i \in DOMAIN anns |->
                [j \in DOMAIN anns[i].details |->
                    <<shorten_source(anns[i].source), anns[i].details[j][1]>>]])

\* the pairs met on the depth-first walk of the packages at refs
RECURSIVE WalkPairs(_, _)
WalkPairs(h, refs) ==
    Flatten([k \in DOMAIN refs |->
                PairsOf(own_annotations(h[refs[k]])) \o WalkPairs(h, h[refs[k]].sub_packages)])

\* the distinct elements of a sequence, in the order they are first seen
FirstSeen(s) ==
    LET first == {i \in DOMAIN s : \A j \in 1..(i - 1) : s[j] /= s[i]}
    IN  [k \in 1..Cardinality(first) |->
            s[CHOOSE i \in first : Cardinality({j \in first : j < i}) = k - 1]]

\* the shortened sources a key appears under anywhere in the input set
SourcesOf(key) == {p[1] : p \in {q \in Range(WalkPairs(heap, all_packages)) : q[2] = key}}

\* C6: after scan_packages has finalized the registry, every entry whose raw
\* key is registered under two or more distinct shortened sources anywhere in
\* the input set has a field name built from its own shortened source followed
\* by the key, and every entry whose key has exactly one shortened source has
\* a field name built from the key alone.
C6_PrefixOnCollision ==
    scan_calls >= 1 =>
        \A k \in DOMAIN collector.options :
            LET opt == collector.options[k]
            IN  /\ opt.lookup \in Range(WalkPairs(heap, all_packages))
                /\ Cardinality(SourcesOf(opt.key)) >= 2 =>
                      /\ opt.field_name = to_option_field_name(opt.source_short, opt.key)
                      /\ StartsWith(opt.field_name, opt.source_short \o <<"_">>)
                /\ Cardinality(SourcesOf(opt.key)) = 1 =>
                      opt.field_name = to_option_field_name(<<>>, opt.key)

\* a finalized registry with a key under two sources, both entries prefixed,
\* beside a key under one source, not prefixed
C6_BothCases ==
    /\ scan_calls >= 1
    /\ \E k, m \in DOMAIN collector.options :
          /\ collector.options[k].key = collector.options[m].key
          /\ collector.options[k].source_short /= collector.options[m].source_short
          /\ collector.options[k].field_name /= collector.options[m].field_name
    /\ \E k \in DOMAIN collector.options :
          /\ Cardinality(SourcesOf(collector.options[k].key)) = 1
          /\ ~StartsWith(collector.options[k].field_name,
                         collector.options[k].source_short \o <<"_">>)

\* C24: after finalization the field names of the registry are non-empty and
\* pairwise distinct: two different (shortened source, key) entries never get
\* the same field name.
C24_OptionNamesDistinct ==
    scan_calls >= 1 =>
        /\ \A k \in DOMAIN collector.options : collector.options[k].field_name /= <<>>
        /\ \A k, m \in DOMAIN collector.options :
              collector.options[k].lookup /= collector.options[m].lookup
              => collector.options[k].field_name /= collector.options[m].field_name

\* the registry numbers the distinct pairs of the walk in first-seen order
NumberedInWalkOrder ==
    LET seen == FirstSeen(WalkPairs(heap, all_packages))
    IN  /\ Len(collector.options) = Len(seen)
        /\ \A k \in DOMAIN collector.options :
              /\ collector.options[k].lookup = seen[k]
              /\ collector.options[k].field_number = EXTENSION_FIELD_START + k - 1
              /\ \A j \in 1..(k - 1) :
                    collector.options[j].field_number < collector.options[k].field_number
              /\ finalize(collector).options[k].field_number =
                    collector.options[k].field_number

\* C7: the collector numbers options in first-seen order of the depth-first
\* walk: the k-th distinct (shortened source, key) gets 50000 + k - 1, the
\* numbers increase strictly in registry order, none is used twice, and
\* neither finalization nor a repeated scan of the same packages changes a
\* number already assigned.
C7_FieldNumbers ==
    /\ [](scan_calls >= 1 => NumberedInWalkOrder)
    /\ [][\A k \in DOMAIN collector.options :
             /\ k \in DOMAIN collector'.options
             /\ collector'.options[k].lookup = collector.options[k].lookup
             /\ collector'.options[k].field_number = collector.options[k].field_number]_vars

\* a registry scanned twice, of three or more options, over a walk that meets
\* a pair more than once
C7_ScannedTwice ==
    /\ scan_calls = 2
    /\ Len(collector.options) >= 3
    /\ Len(WalkPairs(heap, all_packages)) > Len(collector.options)
    /\ collector.options[3].field_number = EXTENSION_FIELD_START + 2

----------------------------------------------------------------------------
(* Properties of generate_all and convert *)

\* the names of the flattened packages
FlatNames == [k \in DOMAIN flat_packages |-> heap[flat_packages[k]].name]

\* C8: generate_all returns one output unit per package of the flattened list
\* plus one extension-definitions unit exactly when the registry is non-empty:
\* for packages of pairwise distinct names the number of entries is the number
\* of packages, plus 1 when the registry is non-empty.
C8_OneUnitPerPackage ==
    (/\ pc = "write"
     /\ \A k, m \in DOMAIN FlatNames : k /= m => FlatNames[k] /= FlatNames[m])
    => /\ Cardinality(DOMAIN proto_files) =
             Len(flat_packages) + (IF collector.options /= <<>> THEN 1 ELSE 0)
       /\ \A k \in DOMAIN flat_packages :
             \E f \in DOMAIN proto_files :
                /\ proto_files[f].unit = "package"
                /\ proto_files[f].package = flat_packages[k]

\* the names of the root packages of the units that parse, in input order
NamesOfParsable(us) ==
    Flatten([n \in DOMAIN us |->
                IF parse_outcome(us[n]) = "ok"
                THEN [k \in DOMAIN root_packages(us[n]) |-> root_packages(us[n])[k].name]
                ELSE <<>>])

\* C9: the parse loop of convert fails per unit: a unit that fails to parse
\* (malformed markup, or a lowerBound, upperBound or literal value that is no
\* integer) contributes no package, every package of every other unit is in
\* the result, and the batch is not aborted.
C9_FailsPerUnit ==
    /\ pc /= "raised"
    /\ (pc /= "parse" \/ next_unit > Len(units)) =>
          [k \in DOMAIN all_packages |-> heap[all_packages[k]].name] = NamesOfParsable(units)

\* C10: when zero packages are parsed from the whole input set, convert ends
\* the run at once: it returns the empty map, the resolution, collection and
\* generation passes are never started and no output unit is written.
C10_EmptyRunEnds ==
    all_packages = <<>> =>
        /\ pc \in {"parse", "raised", "returned"}
        /\ (pc = "parse" /\ next_unit > Len(units))
              => ((ENABLED ReturnEmpty) /\ ~(ENABLED FlattenPackages))
        /\ flat_packages = <<>>
        /\ ~resolver.built
        /\ resolve_calls = 0
        /\ collector = NewCollector
        /\ scan_calls = 0
        /\ proto_files = <<>>
        /\ written = {}

\* convert has returned from a run over files of which none gave a package,
\* one of them reported as failing to parse
C10_ReturnedEmpty ==
    /\ pc = "returned"
    /\ all_packages = <<>>
    /\ Len(units) = MaxUnits
    /\ reported /= <<>>
    /\ proto_files = <<>>

----------------------------------------------------------------------------
(* Properties of the rendered output units *)

\* the package units of proto_files once generate_all has returned
PackageUnits ==
    IF pc \in {"write", "returned"}
    THEN {f \in DOMAIN proto_files : proto_files[f].unit = "package"}
    ELSE {}

\* the class a rendered message was made from
ClassOf(f, i) == heap[proto_files[f].package].classes[i]

\* line declares a field called name under the number n
Declares(line, name, n) ==
    \/ Contains(line, <<" ">> \o name \o <<" ", "=", " ">> \o IntText(n) \o <<";">>)
    \/ Contains(line, <<" ">> \o name \o <<" ", "=", " ">> \o IntText(n) \o <<" ", "[">>)

\* C11: the field numbers of every rendered message are exactly 1..K, where K
\* is the number of resolved super types plus attributes plus references of
\* the class, given out in the order supers, attributes, references, each in
\* declaration order.
C11_FieldNumbersDense ==
    \A f \in PackageUnits :
       \A i \in DOMAIN proto_files[f].content.messages :
          LET msg == proto_files[f].content.messages[i]
              cls == ClassOf(f, i)
              S == Len(cls.resolved_supers)
              A == Len(cls.attributes)
              K == S + A + Len(cls.references)
              declared(j) == IF msg.fields[j].kind = "super" THEN msg.fields[j].lines[2]
                             ELSE msg.fields[j].lines[1]
              source_name(j) == IF j <= S THEN cls.resolved_supers[j][2]
                                ELSE IF j <= S + A THEN cls.attributes[j - S].name
                                ELSE cls.references[j - S - A].name
          IN  /\ DOMAIN msg.fields = 1..K
              /\ \A j \in 1..K :
                    /\ msg.fields[j].number = j
                    /\ msg.fields[j].kind = (IF j <= S THEN "super"
                                             ELSE IF j <= S + A THEN "attribute"
                                             ELSE "reference")
                    /\ msg.fields[j].name = to_field_name(source_name(j))
                    /\ Declares(declared(j), msg.fields[j].name, j)

\* a message is rendered for a class with a super type, an attribute and a
\* reference: Circle of package A
C11_AllThreeKinds ==
    \E f \in PackageUnits :
       \E i \in DOMAIN proto_files[f].content.messages :
          /\ ClassOf(f, i).resolved_supers /= <<>>
          /\ ClassOf(f, i).attributes /= <<>>
          /\ ClassOf(f, i).references /= <<>>
          /\ [j \in 1..3 |-> proto_files[f].content.messages[i].fields[j].number] = <<1, 2, 3>>

\* the feature a rendered attribute or reference field was made from
FeatureOf(f, i, j) ==
    LET cls == ClassOf(f, i)
        S == Len(cls.resolved_supers)
    IN  IF j <= S + Len(cls.attributes) THEN cls.attributes[j - S]
        ELSE cls.references[j - S - Len(cls.attributes)]

\* the details of a feature's annotations that have an option in the registry,
\* in detail order, each as the option text "(ui.<field name>) = <value>"
RegisteredOptions(feature) ==
    LET of(ann) ==
            LET registered == SelectSeq(ann.details,
                                 LAMBDA d : HasOption(collector,
                                                      <<shorten_source(ann.source), d[1]>>))
                option(d) == CHOOSE opt \in Range(collector.options) :
                                opt.lookup = <<shorten_source(ann.source), d[1]>>
            IN  [k \in DOMAIN registered |->
                   <<"(">> \o options_package \o <<".">> \o option(registered[k]).field_name
                     \o <<")", " ", "=", " ">>
                     \o format_option_value(registered[k][2], option(registered[k]).proto_type)]
    IN  Flatten([a \in DOMAIN feature.annotations |-> of(feature.annotations[a])])

\* C13: a field whose annotation details map to n registered options is
\* rendered as a plain declaration when n = 0, as one line with the single
\* option inline in brackets when n = 1, and as a bracketed block over several
\* lines when n >= 2: one option per line in detail order, each followed by a
\* comma except the last.
C13_OptionLayout ==
    \A f \in PackageUnits :
       \A i \in DOMAIN proto_files[f].content.messages :
          \A j \in DOMAIN proto_files[f].content.messages[i].fields :
             LET field == proto_files[f].content.messages[i].fields[j]
                 options == RegisteredOptions(FeatureOf(f, i, j))
                 n == Len(options)
                 decl == <<" ", " ">> \o field.type_str \o <<" ">> \o field.name
                           \o <<" ", "=", " ">> \o IntText(field.number)
             IN  field.kind /= "super" =>
                    /\ n = 0 => /\ Len(field.lines) = 1
                                /\ StartsWith(field.lines[1], decl \o <<";">>)
                    /\ n = 1 => /\ Len(field.lines) = 1
                                /\ StartsWith(field.lines[1],
                                              decl \o <<" ", "[">> \o options[1] \o <<"]", ";">>)
                    /\ n >= 2 =>
                          /\ Len(field.lines) = n + 2
                          /\ field.lines[1] = decl \o <<" ", "[">>
                          /\ \A k \in 1..n :
                                field.lines[k + 1] =
                                   <<" ", " ", " ", " ">> \o options[k]
                                     \o (IF k < n THEN <<",">> ELSE <<>>)
                          /\ StartsWith(field.lines[n + 2], <<" ", " ", "]", ";">>)

\* fields with no option, with one and with two are rendered in one run
C13_AllLayouts ==
    \A n \in 0..2 :
       \E f \in PackageUnits :
          \E i \in DOMAIN proto_files[f].content.messages :
             \E j \in DOMAIN proto_files[f].content.messages[i].fields :
                /\ proto_files[f].content.messages[i].fields[j].kind /= "super"
                /\ Len(RegisteredOptions(FeatureOf(f, i, j))) = n
                /\ Len(proto_files[f].content.messages[i].fields[j].lines) =
                      (IF n = 2 THEN 4 ELSE 1)

\* the types the attributes of the package of unit f are rendered with
AttributeTypes(f) ==
    {proto_files[f].content.messages[i].fields[j].type :
        <<i, j>> \in {ij \in UNION {{<<i, j>> : j \in DOMAIN proto_files[f].content.messages[i].fields} :
                                       i \in DOMAIN proto_files[f].content.messages} :
                         proto_files[f].content.messages[ij[1]].fields[ij[2]].kind = "attribute"}}

\* how often path is in the import list of unit f
ImportCount(f, path) ==
    Cardinality({k \in DOMAIN proto_files[f].content.imports :
                    proto_files[f].content.imports[k] = path})

\* C14 as stated: for every package and every well-known type, the import
\* path of the type is in the import list exactly once if at least one
\* attribute of the package resolves to that type, and not at all otherwise.
C14_ImportPerType ==
    \A f \in PackageUnits :
       \A type \in DOMAIN WELL_KNOWN_TYPE_IMPORTS :
          ImportCount(f, WELL_KNOWN_TYPE_IMPORTS[type]) =
             (IF type \in AttributeTypes(f) THEN 1 ELSE 0)

\* C14: for every package and every import path of a well-known type, the
\* path is in the import list exactly once if at least one attribute of the
\* package resolves to a well-known type defined in that path, and not at all
\* otherwise; two attributes of one well-known type add its path once, and an
\* attribute of a scalar type adds none.
C14_ImportPerPath ==
    \A f \in PackageUnits :
       \A path \in Range(WELL_KNOWN_TYPE_IMPORTS) :
          ImportCount(f, path) =
             (IF \E type \in AttributeTypes(f) \cap DOMAIN WELL_KNOWN_TYPE_IMPORTS :
                    WELL_KNOWN_TYPE_IMPORTS[type] = path
              THEN 1 ELSE 0)

\* a package with two timestamp attributes, and one with an attribute of a
\* scalar type only, are rendered: X of Foo (when, stamp), Shape of A (label)
C14_TimestampTwice ==
    /\ \E f \in PackageUnits :
          \E i \in DOMAIN proto_files[f].content.messages :
             /\ Cardinality({j \in DOMAIN proto_files[f].content.messages[i].fields :
                                proto_files[f].content.messages[i].fields[j].type =
                                   ECORE_TO_PROTO_TYPE[<<"E","D","a","t","e">>]}) = 2
             /\ ImportCount(f, <<"g","o","o","g","l","e","/","p","r","o","t","o","b","u","f","/",
                                 "t","i","m","e","s","t","a","m","p",".","p","r","o","t","o">>) = 1
    /\ \E f \in PackageUnits :
          /\ <<"s","t","r","i","n","g">> \in AttributeTypes(f)
          /\ \A path \in Range(WELL_KNOWN_TYPE_IMPORTS) : ImportCount(f, path) = 0

\* C20: every reference whose resolved package differs from the package that
\* owns its class is rendered with the target name qualified by the proto
\* package name of the resolved package, also when the owning package
\* defines a class of the same name.
C20_QualifiedAcrossPackages ==
    \A f \in PackageUnits :
       \A i \in DOMAIN proto_files[f].content.messages :
          \A j \in DOMAIN proto_files[f].content.messages[i].fields :
             LET field == proto_files[f].content.messages[i].fields[j]
                 ref == FeatureOf(f, i, j)
                 owner == heap[proto_files[f].package].name
             IN  (/\ field.kind = "reference"
                  /\ Truthy(ref.resolved_package)
                  /\ ref.resolved_package /= owner)
                 => field.type = to_proto_package(ref.resolved_package) \o <<".">>
                                   \o to_proto_name(ref.e_type)

\* the names of the packages other than the one rendered as unit f
OtherPackages(f) ==
    {heap[flat_packages[k]].name : k \in DOMAIN flat_packages}
      \ {heap[proto_files[f].package].name}

\* C21: in every rendered package unit, each field whose type is rendered
\* qualified with the name of another package (a super type, a reference,
\* or an attribute whose enum is found in another package) has the filename
\* generated for that package among the imports of the unit.
C21_ImportsComplete ==
    \A f \in PackageUnits :
       \A i \in DOMAIN proto_files[f].content.messages :
          \A j \in DOMAIN proto_files[f].content.messages[i].fields :
             \A other \in OtherPackages(f) :
                StartsWith(proto_files[f].content.messages[i].fields[j].type,
                           to_proto_package(other) \o <<".">>)
                => package_to_filename(other) \in Range(proto_files[f].content.imports)

\* the names of the attributes and references of a class are pairwise
\* distinct in the source
DistinctFeatureNames(cls) ==
    LET names == [j \in DOMAIN cls.attributes |-> cls.attributes[j].name]
                   \o [j \in DOMAIN cls.references |-> cls.references[j].name]
    IN  \A j, k \in DOMAIN names : j /= k => names[j] /= names[k]

\* C23: in every rendered message of a class whose attribute and reference
\* names are pairwise distinct in the source, the field names (of the super
\* type fields, the attributes and the references together) are pairwise
\* distinct.
C23_FieldNamesDistinct ==
    \A f \in PackageUnits :
       \A i \in DOMAIN proto_files[f].content.messages :
          DistinctFeatureNames(ClassOf(f, i)) =>
             \A j, k \in DOMAIN proto_files[f].content.messages[i].fields :
                j /= k => proto_files[f].content.messages[i].fields[j].name
                            /= proto_files[f].content.messages[i].fields[k].name

\* C25: every import of a rendered package unit is the path of a well-known
\* type or the filename of a unit generate_all returned, and no unit imports
\* its own file.
C25_ImportsSatisfiable ==
    \A f \in PackageUnits :
       \A import \in Range(proto_files[f].content.imports) :
          /\ import /= f
          /\ \/ import \in Range(WELL_KNOWN_TYPE_IMPORTS)
             \/ import \in DOMAIN proto_files

====
